---- MODULE Spec2Model ----
(***************************************************************************)
(* Model of lostboys08/ksc-go: the bid import (ImportBid, buildBidItems),  *)
(* the budget / monthly-amount validators, the quantity distributor        *)
(* (DistributeParentQty) and the pay-application import (ParsePayApp).     *)
(*                                                                         *)
(* Decimal amounts (shopspring/decimal) are integers counting units of     *)
(* 0.0001, so 1.00 is 10000 and the 0.01 tolerance is 100.  A product of   *)
(* two amounts counts units of 0.00000001.                                 *)
(*                                                                         *)
(* A numeric string (the TEXT columns budget, qty, unit_price) is a record *)
(* [valid, val]: valid says whether decimal.NewFromString accepts it.      *)
(***************************************************************************)
EXTENDS Integers, Sequences, FiniteSets, TLC

VARIABLES rows, items, stack, itemCounter, pushes, pops, lastPops, tree,
          jobItems, payApps, result, lastCall,
          dist, target, before, upserts, file, pc, imports

vars == <<rows, items, stack, itemCounter, pushes, pops, lastPops, tree,
          jobItems, payApps, result, lastCall,
          dist, target, before, upserts, file, pc, imports>>

builderVars == <<rows, items, stack, itemCounter, pushes, pops, lastPops>>
dbVars == <<jobItems, payApps>>

\* the file given to ImportBid or ParsePayApp, the statement ImportBid has
\* come to, and the number of calls of ParsePayApp made
importVars == <<file, pc, imports>>

\* the last call of DistributeParentQty: its DistributionResult, its
\* targetMonth, the facts it found and the UpsertPayApplication calls it
\* made; ParsePayApp records its targetMonth and the facts it found likewise
distVars == <<dist, target, before, upserts>>

----------------------------------------------------------------------------
(* Bounds *)

MaxRows == 4
MaxNodes == 6
MaxClassifyRows == 1
MaxItems == 3
MaxPricedRows == 2

----------------------------------------------------------------------------
(* Strings and numeric cells *)

\* uuid.NullUUID{Valid: false}: a NULL parent_id
NullUUID == 0

\* strings.TrimSpace on the cell texts used here
TrimSpace(s) == IF s \in {"", " ", "  "} THEN "" ELSE s

\* lower-casing of the cell texts used here (ASCII)
ToLower(s) ==
    CASE s \in {"Detail", "DETAIL", "detail"} -> "detail"
      [] s \in {"Subcontracted", "SUBCONTRACTED", "subcontracted"} -> "subcontracted"
      [] s = "Labor" -> "labor"
      [] s = "Crew" -> "crew"
      [] OTHER -> s

\* strings.EqualFold
EqualFold(a, b) == ToLower(a) = ToLower(b)

\* a numeric string that parses to the amount n
Dec(n) == [valid |-> TRUE, val |-> n]
\* a string decimal.NewFromString rejects ("" or "abc")
NotANumber == [valid |-> FALSE, val |-> 0]

\* the text of a numeric spreadsheet cell
BlankCell == [kind |-> "blank", num |-> 0]
TextCell == [kind |-> "text", num |-> 0]
ExcelErrorCell == [kind |-> "excel_error", num |-> 0]
NumCell(n) == [kind |-> "number", num |-> n]

\* cleanNumeric: "" gives "0", "#..." gives "" and an error, anything else is
\* stripped of $ , % and blanks and returned whether or not it is a number
cleanNumeric(c) ==
    CASE c.kind = "blank" -> [str |-> Dec(0), err |-> FALSE]
      [] c.kind = "excel_error" -> [str |-> NotANumber, err |-> TRUE]
      [] c.kind = "number" -> [str |-> Dec(c.num), err |-> FALSE]
      [] OTHER -> [str |-> NotANumber, err |-> FALSE]

Abs(x) == IF x < 0 THEN -x ELSE x

\* decimal.NewFromString: on error the result is the zero Decimal
NewFromString(s) == [d |-> IF s.valid THEN s.val ELSE 0, err |-> ~s.valid]

\* getCellValue without the TrimSpace
getCellValueNoTrim(cell) == cell

\* getCellValue: the trimmed text of a cell
getCellValue(cell) == TrimSpace(cell)

----------------------------------------------------------------------------
(* buildBidItems *)

budgetTolerance == 100

\* the type decision with the cost method tested ahead of the item number
ClassifySwapped(itemNumber, costMethodRaw, productionRateRaw) ==
    IF EqualFold(costMethodRaw, "Detail")
    THEN [costMethod |-> "Detail", canHaveChildren |-> TRUE]
    ELSE IF EqualFold(costMethodRaw, "Subcontracted")
    THEN [costMethod |-> "Subcontracted", canHaveChildren |-> FALSE]
    ELSE IF itemNumber # ""
    THEN [costMethod |-> "Pay Item", canHaveChildren |-> TRUE]
    ELSE IF costMethodRaw = "" /\ productionRateRaw # ""
    THEN [costMethod |-> "Crew", canHaveChildren |-> TRUE]
    ELSE [costMethod |-> IF costMethodRaw # "" THEN costMethodRaw ELSE "Cost",
          canHaveChildren |-> FALSE]

\* the type decision of buildBidItems, first match wins
Classify(itemNumber, costMethodRaw, productionRateRaw) ==
    IF itemNumber # ""
    THEN [costMethod |-> "Pay Item", canHaveChildren |-> TRUE]
    ELSE IF EqualFold(costMethodRaw, "Detail")
    THEN [costMethod |-> "Detail", canHaveChildren |-> TRUE]
    ELSE IF EqualFold(costMethodRaw, "Subcontracted")
    THEN [costMethod |-> "Subcontracted", canHaveChildren |-> FALSE]
    ELSE IF costMethodRaw = "" /\ productionRateRaw # ""
    THEN [costMethod |-> "Crew", canHaveChildren |-> TRUE]
    ELSE [costMethod |-> IF costMethodRaw # "" THEN costMethodRaw ELSE "Cost",
          canHaveChildren |-> FALSE]

RECURSIVE PopCompletedEarly(_)
\* STEP 1 taking a frame for complete as soon as its running sum reaches the
\* tolerance
PopCompletedEarly(st) ==
    IF Len(st) > 0 /\ st[Len(st)].sum >= budgetTolerance
    THEN PopCompletedEarly(SubSeq(st, 1, Len(st) - 1))
    ELSE st

\* STEP 1 with an if in place of the loop: at most one frame is popped
PopCompletedOnce(st) ==
    IF Len(st) > 0 /\ st[Len(st)].sum >= st[Len(st)].target - budgetTolerance
    THEN SubSeq(st, 1, Len(st) - 1)
    ELSE st

\* STEP 1: pop every completed frame off the top of the stack
RECURSIVE PopCompleted(_)
PopCompleted(st) ==
    IF Len(st) > 0 /\ st[Len(st)].sum >= st[Len(st)].target - budgetTolerance
    THEN PopCompleted(SubSeq(st, 1, Len(st) - 1))
    ELSE st

\* STEP 2 reading the identifier one past the owner's
AssignParentOffByOne(st) == IF Len(st) > 0 THEN st[Len(st)].item + 1 ELSE NullUUID

\* STEP 2: the parent is the owner of the top frame, if a frame is left
AssignParent(st) == IF Len(st) > 0 THEN st[Len(st)].item ELSE NullUUID

\* STEP 2 leaving the running sum as it was
AddToParentForgotten(st, budget) == st

\* STEP 2: the row's budget is added to the top frame's running sum
AddToParent(st, budget) ==
    IF Len(st) > 0
    THEN [st EXCEPT ![Len(st)].sum = @ + budget]
    ELSE st

\* STEP 3 without the budget test
ShouldPushAnyBudget(canHaveChildren, budget) == canHaveChildren

\* STEP 3: push when the item can have children and has a budget
ShouldPush(canHaveChildren, budget) == canHaveChildren /\ budget > 0

\* the cell texts of one data row, by bidColumnMap field
MkPricedRow(desc, itemNumber, costMethod, productionRate, cost, bidPrice, qty) ==
    [Description |-> desc, ItemNumber |-> itemNumber, CostMethod |-> costMethod,
     ProductionRate |-> productionRate, TotalDirectCost |-> cost,
     TotalBidPrice |-> bidPrice, Quantity |-> qty]

\* a data row whose bid price and quantity cells are empty
MkRow(desc, itemNumber, costMethod, productionRate, cost) ==
    MkPricedRow(desc, itemNumber, costMethod, productionRate, cost, BlankCell, BlankCell)

\* parseNumericField: the cleaned text, "0" when cleanNumeric reports an error
parseNumericField(cell) ==
    IF cleanNumeric(cell).err THEN Dec(0) ELSE cleanNumeric(cell).str

\* scheduled.Div(qty).StringFixed(4): the quotient in units of 0.0001,
\* rounded half away from zero
DivStringFixed4(a, b) ==
    LET n == Abs(a) * 10000
        q == (2 * n + Abs(b)) \div (2 * Abs(b))
    IN  IF (a < 0) = (b < 0) THEN q ELSE -q

\* calculateUnitPrice: "0" when either text does not parse or the quantity
\* is zero, the quotient otherwise
calculateUnitPrice(row) ==
    LET scheduled == NewFromString(parseNumericField(row.TotalBidPrice))
        qty == NewFromString(parseNumericField(row.Quantity))
    IN  IF scheduled.err THEN Dec(0)
        ELSE IF qty.err \/ qty.d = 0 THEN Dec(0)
        ELSE Dec(DivStringFixed4(scheduled.d, qty.d))

\* a blank row taken as the end of a section: the open frames are dropped
SkipRowClearingStack(row) ==
    /\ getCellValue(row.Description) = ""
    /\ rows' = Append(rows, row)
    /\ stack' = <<>>
    /\ UNCHANGED <<items, itemCounter, pushes, pops, lastPops>>

\* the skip placed after the counter has advanced
SkipRowCounting(row) ==
    /\ getCellValue(row.Description) = ""
    /\ rows' = Append(rows, row)
    /\ itemCounter' = itemCounter + 1
    /\ UNCHANGED <<items, stack, pushes, pops, lastPops>>

\* one iteration of the row loop, for a row whose description is blank
SkipRow(row) ==
    /\ getCellValue(row.Description) = ""
    /\ rows' = Append(rows, row)
    /\ UNCHANGED <<items, stack, itemCounter, pushes, pops, lastPops>>

\* one iteration of the row loop, for a row that yields an item
BuildRow(row) ==
    LET description == getCellValue(row.Description)
        itemNumber == getCellValue(row.ItemNumber)
        costMethodRaw == getCellValue(row.CostMethod)
        productionRateRaw == getCellValue(row.ProductionRate)
        budgetStr == cleanNumeric(row.TotalDirectCost).str
        budget == NewFromString(budgetStr).d
        class == Classify(itemNumber, costMethodRaw, productionRateRaw)
        popped == PopCompleted(stack)
        parentID == AssignParent(popped)
        added == AddToParent(popped, budget)
        itemID == itemCounter + 1
        item == [ID |-> itemID, ParentID |-> parentID, SortOrder |-> itemCounter + 1,
                 Description |-> description, Budget |-> budgetStr,
                 ScheduledValue |-> parseNumericField(row.TotalBidPrice),
                 Qty |-> parseNumericField(row.Quantity),
                 UnitPrice |-> calculateUnitPrice(row),
                 CostMethod |-> class.costMethod]
        push == ShouldPush(class.canHaveChildren, budget)
    IN  /\ description # ""
        /\ rows' = Append(rows, row)
        /\ itemCounter' = itemCounter + 1
        /\ items' = Append(items, item)
        /\ stack' = IF push
                    THEN Append(added, [item |-> itemID, target |-> budget, sum |-> 0])
                    ELSE added
        /\ lastPops' = Len(stack) - Len(popped)
        /\ pops' = pops + (Len(stack) - Len(popped))
        /\ pushes' = pushes + (IF push THEN 1 ELSE 0)

----------------------------------------------------------------------------
(* The row sets the builder is run on *)

PayItemKind == [ItemNumber |-> "1", CostMethod |-> "", ProductionRate |-> ""]
DetailKind == [ItemNumber |-> "", CostMethod |-> "Detail", ProductionRate |-> ""]
CrewKind == [ItemNumber |-> "", CostMethod |-> "", ProductionRate |-> "5"]
LaborKind == [ItemNumber |-> "", CostMethod |-> "Labor", ProductionRate |-> ""]

KindRow(desc, k, cost) == MkRow(desc, k.ItemNumber, k.CostMethod, k.ProductionRate, cost)

\* 1.00 is NumCell(10000); 0.99 completes a 1.00 frame within the tolerance
PayItemCells == {NumCell(10000), NumCell(20000)}
DetailCells == {BlankCell, NumCell(-10000), NumCell(10000), NumCell(20000)}
LaborCells == {TextCell, NumCell(-10000), NumCell(9900), NumCell(10000)}

RowSet ==
    {KindRow("Work", PayItemKind, c) : c \in PayItemCells}
    \cup {KindRow("Work", DetailKind, c) : c \in DetailCells}
    \cup {KindRow("Work", LaborKind, c) : c \in LaborCells}
    \cup {KindRow("  ", DetailKind, NumCell(10000))}

----------------------------------------------------------------------------
(* Spec: buildBidItems over every row sequence of at most MaxRows rows *)

BuilderInit ==
    /\ rows = <<>>
    /\ items = <<>>
    /\ stack = <<>>
    /\ itemCounter = 0
    /\ pushes = 0
    /\ pops = 0
    /\ lastPops = 0

\* the Excel file handed to ImportBid: what parseBidFile finds in it, and the
\* rows below the header row
MkFile(kind, data) == [kind |-> kind, data |-> data]

\* ImportBid and ParsePayApp have not been called
IdleImport ==
    /\ file = MkFile("none", <<>>)
    /\ pc = "idle"
    /\ imports = 0

\* DistributeParentQty has not been called
IdleDistributor ==
    /\ dist = [ItemsUpdated |-> 0, Details |-> <<>>]
    /\ target = 0
    /\ before = {}
    /\ upserts = <<>>

IdleRest ==
    /\ IdleDistributor
    /\ IdleImport
    /\ jobItems = <<>>
    /\ payApps = {}
    /\ result = [IsValid |-> TRUE, Errors |-> <<>>, Warnings |-> <<>>]
    /\ lastCall = "none"

Init ==
    /\ BuilderInit
    /\ tree = <<>>
    /\ IdleRest

ReadSkippedRow ==
    \E row \in RowSet :
        /\ Len(rows) < MaxRows
        /\ SkipRow(row)
        /\ UNCHANGED <<tree, jobItems, payApps, result, lastCall, dist, target, before, upserts, file, pc, imports>>

ReadItemRow ==
    \E row \in RowSet :
        /\ Len(rows) < MaxRows
        /\ BuildRow(row)
        /\ UNCHANGED <<tree, jobItems, payApps, result, lastCall, dist, target, before, upserts, file, pc, imports>>

Next == ReadSkippedRow \/ ReadItemRow

Spec == Init /\ [][Next]_vars

----------------------------------------------------------------------------
(* SpecTree: buildBidItems over the pre-order of a budget tree *)

\* the leaf budgets 300, 400 and 600 of the walkthrough examples
LeafBudgets == {3000000, 4000000, 6000000}

RECURSIVE AncestorsOrSelf(_, _)
\* node i of the parent vector p and its ancestors
AncestorsOrSelf(p, i) == IF i = 0 THEN {} ELSE {i} \cup AncestorsOrSelf(p, p[i])

RECURSIVE PreorderParents(_)
\* the parent vectors of the trees of n nodes numbered in pre-order
PreorderParents(n) ==
    IF n = 1 THEN {<<0>>}
    ELSE UNION {{Append(q, k) : k \in AncestorsOrSelf(q, n - 1)} : q \in PreorderParents(n - 1)}

ChildrenIn(p, i) == {j \in 1..Len(p) : p[j] = i}
LeavesOf(p) == {i \in 1..Len(p) : ChildrenIn(p, i) = {}}

RECURSIVE SubtreeBudget(_, _, _)
RECURSIVE SumSubtrees(_, _, _)
\* a leaf has its own budget, a parent the sum of its children's
SubtreeBudget(p, lb, i) ==
    IF i \in DOMAIN lb THEN lb[i] ELSE SumSubtrees(p, lb, ChildrenIn(p, i))
SumSubtrees(p, lb, S) ==
    IF S = {} THEN 0
    ELSE LET j == CHOOSE x \in S : TRUE
         IN  SubtreeBudget(p, lb, j) + SumSubtrees(p, lb, S \ {j})

\* the row of a tree node: the root is a Pay Item, another parent is of the
\* kind inner (Detail or Crew), a leaf is a cost component
NodeKind(p, i, inner) ==
    IF ChildrenIn(p, i) = {} THEN LaborKind
    ELSE IF p[i] = 0 THEN PayItemKind ELSE inner

MkTree(p, lb, inner) ==
    [i \in 1..Len(p) |->
        [parent |-> p[i],
         row |-> KindRow("Work", NodeKind(p, i, inner), NumCell(SubtreeBudget(p, lb, i)))]]

\* the trees of at most maxNodes nodes: every leaf budget under Detail
\* parents, and the leaf budget 300 throughout under Crew parents
Trees(maxNodes) ==
    UNION {UNION {{MkTree(p, lb, inner) : lb \in [LeavesOf(p) -> LeafBudgets]}
                    : p \in PreorderParents(n)}
             : n \in 1..maxNodes, inner \in {DetailKind}}
    \cup {MkTree(p, [i \in LeavesOf(p) |-> 3000000], CrewKind)
             : p \in UNION {PreorderParents(n) : n \in 1..maxNodes}}

InitTree ==
    /\ BuilderInit
    /\ tree \in Trees(MaxNodes)
    /\ IdleRest

ReadTreeRow ==
    /\ Len(rows) < Len(tree)
    /\ BuildRow(tree[Len(rows) + 1].row)
    /\ UNCHANGED <<tree, jobItems, payApps, result, lastCall, dist, target, before, upserts, file, pc, imports>>

NextTree == ReadTreeRow

SpecTree == InitTree /\ [][NextTree]_vars

----------------------------------------------------------------------------
(* SpecClassify: buildBidItems over rows of every cell combination *)

ItemNumberCells == {"", " ", "1", "A-2"}
CostMethodCells == {"", " ", "Detail", "DETAIL", "detail", "Subcontracted",
                    "subcontracted", "Labor", "Crew", "Pay Item"}
ProductionRateCells == {"", " ", "5"}

ClassifyRows ==
    {MkRow("Work", i, c, r, NumCell(10000)) :
        i \in ItemNumberCells, c \in CostMethodCells, r \in ProductionRateCells}

ReadClassifiedRow ==
    \E row \in ClassifyRows :
        /\ Len(rows) < MaxClassifyRows
        /\ BuildRow(row)
        /\ UNCHANGED <<tree, jobItems, payApps, result, lastCall, dist, target, before, upserts, file, pc, imports>>

NextClassify == ReadClassifiedRow

SpecClassify == Init /\ [][NextClassify]_vars

----------------------------------------------------------------------------
(* SpecUnitPrice: buildBidItems over rows of every bid price and quantity *)

\* 1.00 / 2.00 = 0.5 exactly, 1.00 / 3.00 = 0.3333 after rounding
BidPriceCells == {BlankCell, TextCell, ExcelErrorCell, NumCell(0), NumCell(10000),
                  NumCell(-10000)}
QuantityCells == {BlankCell, TextCell, ExcelErrorCell, NumCell(0), NumCell(20000),
                  NumCell(30000), NumCell(-20000)}

PricedRows ==
    {MkPricedRow("Work", "", "Labor", "", NumCell(10000), b, q) :
        b \in BidPriceCells, q \in QuantityCells}

ReadPricedRow ==
    \E row \in PricedRows :
        /\ Len(rows) < MaxPricedRows
        /\ BuildRow(row)
        /\ UNCHANGED <<tree, jobItems, payApps, result, lastCall, dist, target, before, upserts, file, pc, imports>>

NextUnitPrice == ReadPricedRow

SpecUnitPrice == Init /\ [][NextUnitPrice]_vars

----------------------------------------------------------------------------
(* The job_items and pay_applications tables of one job, and the queries *)

\* jobItems[i] is the job_items row with id i: [ID, ParentID, Budget, Qty,
\* UnitPrice]; payApps is the set of pay_applications rows [JobItemID,
\* PayAppMonth, Qty, StoredMaterials], one at most per item and month.

\* the sequences that list every element of S once: the orders in which a
\* query without ORDER BY may return its rows
RECURSIVE Orderings(_)
Orderings(S) ==
    IF S = {} THEN {<<>>}
    ELSE UNION {{<<x>> \o rest : rest \in Orderings(S \ {x})} : x \in S}

\* GetParentItems: the items of the job that have a child
GetParentItems(ji) ==
    {i \in 1..Len(ji) : \E c \in 1..Len(ji) : ji[c].ParentID = ji[i].ID}

\* GetDirectChildren: the items whose parent_id is pid
GetDirectChildren(ji, pid) == {c \in 1..Len(ji) : ji[c].ParentID = pid}

\* GetPayAppMonthsForJob: the distinct months that have a fact
GetPayAppMonthsForJob(pa) == {f.PayAppMonth : f \in pa}

\* GetParentPayAppForMonth: the facts of the item for the month (none: no rows)
GetParentPayAppForMonth(pa, id, month) ==
    {f \in pa : f.JobItemID = id /\ f.PayAppMonth = month}

\* GetChildrenWithPayApps: pay_app_qty of a child for the month, '0' without a fact
PayAppQty(pa, id, month) ==
    IF GetParentPayAppForMonth(pa, id, month) = {} THEN Dec(0)
    ELSE (CHOOSE f \in GetParentPayAppForMonth(pa, id, month) : TRUE).Qty

\* Decimal.StringFixed(2) of an amount counted in units of 1/scale cents:
\* rounded half away from zero, in cents
StringFixed2(v, scale) ==
    IF v >= 0 THEN (v + scale \div 2) \div scale ELSE -((-v + scale \div 2) \div scale)

----------------------------------------------------------------------------
(* ValidateBudgetHierarchy *)

tolerance == 100

\* the comparison without the Abs
BudgetMismatchOneSided(parentBudget, childSum) == parentBudget - childSum > tolerance

\* the comparison with the tolerance excluded
BudgetMismatchInclusive(parentBudget, childSum) == Abs(parentBudget - childSum) >= tolerance

\* diff := parentBudget.Sub(childSum).Abs(); diff.GreaterThan(tolerance)
BudgetMismatch(parentBudget, childSum) == Abs(parentBudget - childSum) > tolerance

RECURSIVE SumChildBudgets(_, _, _)
\* the loop over the children: a child whose budget does not parse adds a
\* warning and nothing to the sum
SumChildBudgets(ji, children, acc) ==
    IF children = <<>> THEN acc
    ELSE LET child == ji[Head(children)]
             parsed == NewFromString(child.Budget)
         IN  SumChildBudgets(ji, Tail(children),
                IF parsed.err
                THEN [acc EXCEPT !.warnings =
                        Append(@, [about |-> "child budget", item |-> child.ID])]
                ELSE [acc EXCEPT !.sum = @ + parsed.d])

\* the body of the loop over the parents, for one parent whose children the
\* query returned in the order children
ValidateBudgetOfParent(ji, parent, children, res) ==
    LET summed == SumChildBudgets(ji, children, [sum |-> 0, warnings |-> res.Warnings])
        parsed == NewFromString(ji[parent].Budget)
        diff == Abs(parsed.d - summed.sum)
    IN  IF Len(children) = 0 THEN res
        ELSE IF parsed.err
        THEN [res EXCEPT !.Warnings =
                Append(summed.warnings, [about |-> "parent budget", item |-> ji[parent].ID])]
        ELSE IF BudgetMismatch(parsed.d, summed.sum)
        THEN [IsValid |-> FALSE,
              Errors |-> Append(res.Errors,
                           [Type |-> "BUDGET_MISMATCH",
                            ParentItemID |-> ji[parent].ID,
                            Month |-> 0,
                            ExpectedValue |-> StringFixed2(parsed.d, 100),
                            ActualValue |-> StringFixed2(summed.sum, 100),
                            Difference |-> StringFixed2(diff, 100)]),
              Warnings |-> summed.warnings]
        ELSE [res EXCEPT !.Warnings = summed.warnings]

RECURSIVE ValidateBudgetParentsAborting(_, _, _)
\* the loop over the parent items given up at the first parent that adds a
\* warning
ValidateBudgetParentsAborting(ji, parentItems, res) ==
    IF parentItems = <<>> THEN {res}
    ELSE UNION {LET next == ValidateBudgetOfParent(ji, Head(parentItems), children, res)
                IN  IF Len(next.Warnings) > Len(res.Warnings) THEN {next}
                    ELSE ValidateBudgetParentsAborting(ji, Tail(parentItems), next)
                  : children \in Orderings(GetDirectChildren(ji, ji[Head(parentItems)].ID))}

RECURSIVE ValidateBudgetParents(_, _, _)
\* the loop over the parent items, in the order the query returned them: the
\* results it can end with, one for every order in which GetDirectChildren
\* may return each parent's children
ValidateBudgetParents(ji, parentItems, res) ==
    IF parentItems = <<>> THEN {res}
    ELSE UNION {ValidateBudgetParents(ji, Tail(parentItems),
                    ValidateBudgetOfParent(ji, Head(parentItems), children, res))
                  : children \in Orderings(GetDirectChildren(ji, ji[Head(parentItems)].ID))}

\* a call that also writes the sum of the children's budgets into every
\* parent it reports
ValidateBudgetHierarchyRepairing ==
    \E parentItems \in Orderings(GetParentItems(jobItems)) :
        /\ result' \in ValidateBudgetParents(jobItems, parentItems,
                          [IsValid |-> TRUE, Errors |-> <<>>, Warnings |-> <<>>])
        /\ lastCall' = "ValidateBudgetHierarchy"
        /\ jobItems' = [i \in 1..Len(jobItems) |->
              IF \E k \in 1..Len(result'.Errors) :
                    result'.Errors[k].ParentItemID = jobItems[i].ID
              THEN [jobItems[i] EXCEPT !.Budget =
                      Dec(SumChildBudgets(jobItems,
                            CHOOSE c \in Orderings(GetDirectChildren(jobItems, jobItems[i].ID)) : TRUE,
                            [sum |-> 0, warnings |-> <<>>]).sum)]
              ELSE jobItems[i]]
        /\ UNCHANGED payApps

\* a call of ValidateBudgetHierarchy; the tables are left as they are
ValidateBudgetHierarchy ==
    \E parentItems \in Orderings(GetParentItems(jobItems)) :
        /\ result' \in ValidateBudgetParents(jobItems, parentItems,
                          [IsValid |-> TRUE, Errors |-> <<>>, Warnings |-> <<>>])
        /\ lastCall' = "ValidateBudgetHierarchy"
        /\ UNCHANGED <<jobItems, payApps>>

----------------------------------------------------------------------------
(* SpecBudget: ValidateBudgetHierarchy over the stored forests of a job *)

RECURSIVE ParentVectors(_)
\* the parent columns of the forests of n items in which a parent is stored
\* before its children
ParentVectors(n) ==
    IF n = 0 THEN {<<>>}
    ELSE {Append(q, k) : q \in ParentVectors(n - 1), k \in 0..(n - 1)}

\* budgets 1.00, 0.99, 0.979 and NaN
BudgetTexts == {Dec(10000), Dec(9900), Dec(9790), NotANumber}

MkJobItem(id, parentID, budget, qty, unitPrice) ==
    [ID |-> id, ParentID |-> parentID, Budget |-> budget, Qty |-> qty,
     UnitPrice |-> unitPrice]

\* the forests of at most maxItems items with every budget text
BudgetForests(maxItems) ==
    UNION {{[i \in 1..Len(p) |-> MkJobItem(i, p[i], b[i], Dec(10000), Dec(10000))]
               : b \in [1..Len(p) -> BudgetTexts]}
             : p \in UNION {ParentVectors(n) : n \in 1..maxItems}}

IdleBuilder ==
    /\ BuilderInit
    /\ tree = <<>>

InitBudget ==
    /\ IdleBuilder
    /\ IdleDistributor
    /\ IdleImport
    /\ jobItems \in BudgetForests(MaxItems)
    /\ payApps = {}
    /\ result = [IsValid |-> TRUE, Errors |-> <<>>, Warnings |-> <<>>]
    /\ lastCall = "none"

CallValidateBudgetHierarchy ==
    /\ ValidateBudgetHierarchy
    /\ UNCHANGED <<rows, items, stack, itemCounter, pushes, pops, lastPops, tree,
                 dist, target, before, upserts, file, pc, imports>>

NextBudget == CallValidateBudgetHierarchy

SpecBudget == InitBudget /\ [][NextBudget]_vars

----------------------------------------------------------------------------
(* ValidateMonthlyAmounts *)

\* the comparison without the Abs; amounts count units of 0.00000001
AmountMismatchOneSided(parentAmount, childSum) == parentAmount - childSum > tolerance * 10000

\* diff := parentAmount.Sub(childSum).Abs(); diff.GreaterThan(tolerance)
AmountMismatch(parentAmount, childSum) == Abs(parentAmount - childSum) > tolerance * 10000

RECURSIVE SumChildAmounts(_, _, _, _, _)
\* the loop over the children: qty times unit price, a child whose qty or
\* unit price does not parse adds a warning and nothing to the sum
SumChildAmounts(ji, pa, month, children, acc) ==
    IF children = <<>> THEN acc
    ELSE LET child == ji[Head(children)]
             childQty == NewFromString(PayAppQty(pa, child.ID, month))
             childUnitPrice == NewFromString(child.UnitPrice)
         IN  SumChildAmounts(ji, pa, month, Tail(children),
                IF childQty.err
                THEN [acc EXCEPT !.warnings =
                        Append(@, [about |-> "child qty", item |-> child.ID])]
                ELSE IF childUnitPrice.err
                THEN [acc EXCEPT !.warnings =
                        Append(@, [about |-> "child unit_price", item |-> child.ID])]
                ELSE [acc EXCEPT !.sum = @ + childQty.d * childUnitPrice.d])

\* the body of the inner loop, for one month and one parent whose children
\* the query returned in the order children
ValidateMonthOfParent(ji, pa, month, parent, children, res) ==
    LET found == GetParentPayAppForMonth(pa, ji[parent].ID, month)
        parentPayApp == CHOOSE f \in found : TRUE
        parentQty == NewFromString(parentPayApp.Qty)
        parentUnitPrice == NewFromString(ji[parent].UnitPrice)
        parentAmount == parentQty.d * parentUnitPrice.d
        summed == SumChildAmounts(ji, pa, month, children,
                                  [sum |-> 0, warnings |-> res.Warnings])
        diff == Abs(parentAmount - summed.sum)
    IN  IF found = {} THEN res
        ELSE IF parentQty.err
        THEN [res EXCEPT !.Warnings =
                Append(@, [about |-> "parent qty", item |-> ji[parent].ID])]
        ELSE IF parentUnitPrice.err
        THEN [res EXCEPT !.Warnings =
                Append(@, [about |-> "parent unit_price", item |-> ji[parent].ID])]
        ELSE IF AmountMismatch(parentAmount, summed.sum)
        THEN [IsValid |-> FALSE,
              Errors |-> Append(res.Errors,
                           [Type |-> "MONTHLY_AMOUNT_MISMATCH",
                            ParentItemID |-> ji[parent].ID,
                            Month |-> month,
                            ExpectedValue |-> StringFixed2(parentAmount, 1000000),
                            ActualValue |-> StringFixed2(summed.sum, 1000000),
                            Difference |-> StringFixed2(diff, 1000000)]),
              Warnings |-> summed.warnings]
        ELSE [res EXCEPT !.Warnings = summed.warnings]

RECURSIVE ValidateMonthParents(_, _, _, _, _)
\* the inner loop over the parent items for one month: the results it can
\* end with, one for every order of each parent's children
ValidateMonthParents(ji, pa, month, parentItems, res) ==
    IF parentItems = <<>> THEN {res}
    ELSE UNION {ValidateMonthParents(ji, pa, month, Tail(parentItems),
                    ValidateMonthOfParent(ji, pa, month, Head(parentItems), children, res))
                  : children \in Orderings(GetDirectChildren(ji, ji[Head(parentItems)].ID))}

\* the months of S in ascending order (ORDER BY pa.pay_app_month)
RECURSIVE Ascending(_)
Ascending(S) ==
    IF S = {} THEN <<>>
    ELSE LET m == CHOOSE x \in S : \A y \in S : x <= y
         IN  <<m>> \o Ascending(S \ {m})

RECURSIVE ValidateMonths(_, _, _, _, _)
\* the outer loop over the months
ValidateMonths(ji, pa, months, parentItems, res) ==
    IF months = <<>> THEN {res}
    ELSE UNION {ValidateMonths(ji, pa, Tail(months), parentItems, r)
                  : r \in ValidateMonthParents(ji, pa, Head(months), parentItems, res)}

\* a call of ValidateMonthlyAmounts; the tables are left as they are
ValidateMonthlyAmounts ==
    \E parentItems \in Orderings(GetParentItems(jobItems)) :
        /\ result' \in ValidateMonths(jobItems, payApps,
                          Ascending(GetPayAppMonthsForJob(payApps)), parentItems,
                          [IsValid |-> TRUE, Errors |-> <<>>, Warnings |-> <<>>])
        /\ lastCall' = "ValidateMonthlyAmounts"
        /\ UNCHANGED <<jobItems, payApps>>

----------------------------------------------------------------------------
(* SpecMonthly: ValidateMonthlyAmounts over stored forests and facts *)

\* the billing months, and the quantity billed in a fact of the month:
\* 1.00 in month 1, 2.00 in month 2
Months == {1, 2}
MonthQty(m) == Dec(10000 * m)

\* unit prices 1.00 and 0.99, and the NUMERIC value 'NaN'
UnitPriceTexts == {Dec(10000), Dec(9900), NotANumber}

\* the parent vectors of the forests of n items numbered level by level, so
\* that the parents never decrease: every shape of forest once
LevelOrderVectors(n) == {p \in ParentVectors(n) : \A i \in 1..(n - 1) : p[i] <= p[i + 1]}

\* the shapes of the forests of at most maxItems items
ForestShapes(maxItems) == UNION {LevelOrderVectors(n) : n \in 1..maxItems}

\* the unit prices of n items, at most one of them no number
PriceVectors(n) ==
    {u \in [1..n -> UnitPriceTexts] :
        \A i, j \in 1..n : ~u[i].valid /\ ~u[j].valid => i = j}

\* the forests of at most maxItems items with their unit prices
PricedForests(maxItems) ==
    UNION {{[i \in 1..Len(p) |-> MkJobItem(i, p[i], Dec(10000), Dec(10000), u[i])]
               : u \in PriceVectors(Len(p))}
             : p \in UNION {LevelOrderVectors(n) : n \in 1..maxItems}}

MkPayApp(id, month, qty) ==
    [JobItemID |-> id, PayAppMonth |-> month, Qty |-> qty, StoredMaterials |-> Dec(0)]

\* the fact tables over n items: any set of (item, month) pairs
FactTables(n) ==
    {{MkPayApp(k[1], k[2], MonthQty(k[2])) : k \in K} : K \in SUBSET ((1..n) \X Months)}

InitMonthly ==
    /\ IdleBuilder
    /\ IdleDistributor
    /\ IdleImport
    /\ jobItems \in PricedForests(MaxItems)
    /\ payApps \in FactTables(Len(jobItems))
    /\ result = [IsValid |-> TRUE, Errors |-> <<>>, Warnings |-> <<>>]
    /\ lastCall = "none"

CallValidateMonthlyAmounts ==
    /\ ValidateMonthlyAmounts
    /\ UNCHANGED <<rows, items, stack, itemCounter, pushes, pops, lastPops, tree,
                 dist, target, before, upserts, file, pc, imports>>

NextMonthly == CallValidateMonthlyAmounts

SpecMonthly == InitMonthly /\ [][NextMonthly]_vars

----------------------------------------------------------------------------
(* ValidateAll *)

\* the results ValidateBudgetHierarchy can return for the items ji
BudgetResults(ji) ==
    UNION {ValidateBudgetParents(ji, parentItems,
                [IsValid |-> TRUE, Errors |-> <<>>, Warnings |-> <<>>])
             : parentItems \in Orderings(GetParentItems(ji))}

\* the results ValidateMonthlyAmounts can return for the items ji and facts pa
MonthlyResults(ji, pa) ==
    UNION {ValidateMonths(ji, pa, Ascending(GetPayAppMonthsForJob(pa)), parentItems,
                [IsValid |-> TRUE, Errors |-> <<>>, Warnings |-> <<>>])
             : parentItems \in Orderings(GetParentItems(ji))}

\* the combination that takes IsValid from the part just appended
CombineLastWins(combined, part) ==
    [IsValid |-> part.IsValid,
     Errors |-> combined.Errors \o part.Errors,
     Warnings |-> combined.Warnings \o part.Warnings]

\* combined.Errors = append(combined.Errors, part.Errors...), the same for
\* the warnings; if !part.IsValid { combined.IsValid = false }
Combine(combined, part) ==
    [IsValid |-> IF ~part.IsValid THEN FALSE ELSE combined.IsValid,
     Errors |-> combined.Errors \o part.Errors,
     Warnings |-> combined.Warnings \o part.Warnings]

\* a call of ValidateAll: the budget result, then the monthly result, combined
ValidateAll ==
    \E budgetResult \in BudgetResults(jobItems) :
        \E monthlyResult \in MonthlyResults(jobItems, payApps) :
            /\ result' = Combine(Combine([IsValid |-> TRUE, Errors |-> <<>>,
                                          Warnings |-> <<>>], budgetResult),
                                 monthlyResult)
            /\ lastCall' = "ValidateAll"
            /\ UNCHANGED <<jobItems, payApps>>

----------------------------------------------------------------------------
(* SpecValidate: the three validators over stored forests and facts *)

\* budgets 1.00 and NaN
ValidateBudgetTexts == {Dec(10000), NotANumber}

\* the budgets of n items, at most one of them no number
BudgetVectors(n) ==
    {b \in [1..n -> ValidateBudgetTexts] :
        \A i, j \in 1..n : ~b[i].valid /\ ~b[j].valid => i = j}

\* the months an item has a fact for: none, the first, or both
FactMonths == {{}, {1}, {1, 2}}

InitValidate ==
    /\ IdleBuilder
    /\ IdleDistributor
    /\ IdleImport
    /\ \E p \in ForestShapes(MaxItems) :
          \E b \in BudgetVectors(Len(p)) : \E fm \in [1..Len(p) -> FactMonths] :
             /\ jobItems = [i \in 1..Len(p) |-> MkJobItem(i, p[i], b[i], Dec(10000), Dec(10000))]
             /\ payApps = UNION {{MkPayApp(i, m, MonthQty(m)) : m \in fm[i]} : i \in 1..Len(p)}
    /\ result = [IsValid |-> TRUE, Errors |-> <<>>, Warnings |-> <<>>]
    /\ lastCall = "none"

CallValidateAll ==
    /\ ValidateAll
    /\ UNCHANGED <<rows, items, stack, itemCounter, pushes, pops, lastPops, tree,
                 dist, target, before, upserts, file, pc, imports>>

NextValidate ==
    \/ CallValidateBudgetHierarchy
    \/ CallValidateMonthlyAmounts
    \/ CallValidateAll

SpecValidate == InitValidate /\ [][NextValidate]_vars

----------------------------------------------------------------------------
(* DistributeParentQty *)

RECURSIVE SumQty(_)
\* SUM(qty::NUMERIC) over a window of facts: NaN as soon as one qty is NaN
SumQty(F) ==
    IF F = {} THEN Dec(0)
    ELSE LET f == CHOOSE x \in F : TRUE
             rest == SumQty(F \ {f})
         IN  IF f.Qty.valid /\ rest.valid THEN Dec(f.Qty.val + rest.val) ELSE NotANumber

\* pay_application_cumulative.cumulative_qty of the row of (id, month): the
\* facts of the item up to and including the month
CumulativeQty(pa, id, month) ==
    SumQty({f \in pa : f.JobItemID = id /\ f.PayAppMonth <= month})

\* pay_application_cumulative.previous_cumulative_qty of the row of
\* (id, month): the facts of the item strictly before the month, 0 without any
PreviousCumulativeQty(pa, id, month) ==
    SumQty({f \in pa : f.JobItemID = id /\ f.PayAppMonth < month})

\* the row of GetChildrenWithPayApps for child c: the view has a row for
\* (item, month) only where the item has a fact for the month, and the
\* LEFT JOIN leaves previous_cumulative_qty NULL, read as '0', otherwise
GetChildWithPayApp(ji, pa, c, month) ==
    [ID |-> ji[c].ID,
     TotalQty |-> ji[c].Qty,
     PayAppQty |-> PayAppQty(pa, ji[c].ID, month),
     PreviousCumulativeQty |->
        IF GetParentPayAppForMonth(pa, ji[c].ID, month) = {} THEN Dec(0)
        ELSE PreviousCumulativeQty(pa, ji[c].ID, month)]

\* UpsertPayApplication: insert the fact, or replace the one of (id, month)
UpsertPayApplication(pa, id, month, qty) ==
    {f \in pa : ~(f.JobItemID = id /\ f.PayAppMonth = month)}
        \cup {[JobItemID |-> id, PayAppMonth |-> month, Qty |-> qty,
               StoredMaterials |-> Dec(0)]}

\* Decimal.Div of two quantities, a fraction counted in units of 0.0001; the
\* quantities of this model divide evenly, so DivisionPrecision is not reached
Div(a, b) == (a * 10000) \div b

\* if childMonthQty.IsNegative() { childMonthQty = decimal.Zero }
ClampNegative(v) == IF v < 0 THEN 0 ELSE v

\* the month quantity of a child row: total times percent complete minus the
\* previous cumulative, never negative, in units of 0.0001
ChildMonthQty(child, parentPctComplete) ==
    LET childTotalQty == NewFromString(child.TotalQty)
        prev == NewFromString(child.PreviousCumulativeQty)
        childPrevCumulative == IF prev.err THEN 0 ELSE prev.d
        childNewCumulative == childTotalQty.d * parentPctComplete
        childMonthQty == childNewCumulative - childPrevCumulative * 10000
    IN  ClampNegative(childMonthQty) \div 10000

RECURSIVE DistributeToChildren(_, _, _, _)
\* the loop over the children rows: a child whose total qty does not parse is
\* passed over, every other child gets its fact upserted; st.quota is the
\* number of queries the database still answers, and the upsert it does not
\* answer ends the call with an error
DistributeToChildren(children, parentPctComplete, targetMonth, st) ==
    IF children = <<>> \/ st.err THEN st
    ELSE LET child == Head(children)
             qty == Dec(ChildMonthQty(child, parentPctComplete))
         IN  DistributeToChildren(Tail(children), parentPctComplete, targetMonth,
                IF NewFromString(child.TotalQty).err THEN st
                ELSE IF st.quota = 0 THEN [st EXCEPT !.err = TRUE]
                ELSE [pa |-> UpsertPayApplication(st.pa, child.ID, targetMonth, qty),
                      upserts |-> Append(st.upserts,
                                     [JobItemID |-> child.ID, PayAppMonth |-> targetMonth,
                                      Qty |-> qty]),
                      childrenUpdated |-> st.childrenUpdated + 1,
                      quota |-> st.quota - 1,
                      err |-> FALSE])

\* the check of the children's quantities that looks at the first row only
AnyChildHasQtyFirstOnly(children) ==
    children # <<>> /\ NewFromString(children[1].PayAppQty).d # 0

\* anyChildHasQty: a child row whose pay_app_qty parses to a non-zero value
AnyChildHasQty(children) ==
    \E k \in 1..Len(children) : NewFromString(children[k].PayAppQty).d # 0

\* the details with a detail appended whatever the number of children updated
AppendDetailAlways(d, parentID, targetMonth, childrenUpdated, parentPctComplete) ==
    [ItemsUpdated |-> d.ItemsUpdated + childrenUpdated,
     Details |-> Append(d.Details,
                    [ParentItemID |-> parentID, Month |-> targetMonth,
                     ChildrenCount |-> childrenUpdated,
                     ParentPctComplete |-> StringFixed2(parentPctComplete * 100, 100)])]

\* if childrenUpdated > 0 { result.ItemsUpdated += ...; result.Details = append(...) }
AppendDetail(d, parentID, targetMonth, childrenUpdated, parentPctComplete) ==
    IF childrenUpdated > 0
    THEN [ItemsUpdated |-> d.ItemsUpdated + childrenUpdated,
          Details |-> Append(d.Details,
                         [ParentItemID |-> parentID, Month |-> targetMonth,
                          ChildrenCount |-> childrenUpdated,
                          ParentPctComplete |-> StringFixed2(parentPctComplete * 100, 100)])]
    ELSE d

\* the body of the loop over the parents, for a parent whose children the
\* query returned in the order childIDs; st holds the facts, the result and
\* the upserts made so far, the number of queries the database still answers
\* and whether the call has ended with an error
DistributeParent(ji, targetMonth, parent, childIDs, st) ==
    LET found == GetParentPayAppForMonth(st.pa, ji[parent].ID, targetMonth)
        parentQty == NewFromString((CHOOSE f \in found : TRUE).Qty)
        children == [k \in 1..Len(childIDs) |->
                        GetChildWithPayApp(ji, st.pa, childIDs[k], targetMonth)]
        parentCumulative == NewFromString(CumulativeQty(st.pa, ji[parent].ID, targetMonth))
        parentTotalQty == NewFromString(ji[parent].Qty)
        parentPctComplete == Div(parentCumulative.d, parentTotalQty.d)
        fetched == [st EXCEPT !.quota = @ - 1]
        after == DistributeToChildren(children, parentPctComplete, targetMonth,
                    [pa |-> st.pa, upserts |-> st.upserts, childrenUpdated |-> 0,
                     quota |-> fetched.quota, err |-> FALSE])
    IN  IF found = {} THEN st
        ELSE IF parentQty.err \/ parentQty.d = 0 THEN st
        ELSE IF st.quota = 0 THEN [st EXCEPT !.err = TRUE]
        ELSE IF Len(children) = 0 THEN fetched
        ELSE IF AnyChildHasQty(children) THEN fetched
        ELSE IF parentCumulative.err THEN fetched
        ELSE IF parentTotalQty.err \/ parentTotalQty.d = 0 THEN fetched
        ELSE IF after.err
        THEN [pa |-> after.pa, upserts |-> after.upserts, dist |-> st.dist,
              quota |-> after.quota, err |-> TRUE]
        ELSE [pa |-> after.pa,
              upserts |-> after.upserts,
              dist |-> AppendDetail(st.dist, ji[parent].ID, targetMonth,
                                    after.childrenUpdated, parentPctComplete),
              quota |-> after.quota,
              err |-> FALSE]

RECURSIVE DistributeParents(_, _, _, _)
\* the loop over the parent items: the outcomes it can end with, one for
\* every order of each parent's children; an error ends the loop
DistributeParents(ji, targetMonth, parentItems, st) ==
    IF parentItems = <<>> \/ st.err THEN {st}
    ELSE UNION {DistributeParents(ji, targetMonth, Tail(parentItems),
                    DistributeParent(ji, targetMonth, Head(parentItems), childIDs, st))
                  : childIDs \in Orderings(GetDirectChildren(ji, ji[Head(parentItems)].ID))}

\* the GetChildrenWithPayApps and UpsertPayApplication queries of one call
\* number at most two for every item but one: a database that answers that
\* many fails none
NoFailure(ji) == 2 * Len(ji)

\* a call of DistributeParentQty(jobID, targetMonth) against a database that
\* answers quota queries of the loop; a call that ends with an error returns
\* no result
DistributeParentQty(targetMonth, quota) ==
    \E parentItems \in Orderings(GetParentItems(jobItems)) :
        \E st \in DistributeParents(jobItems, targetMonth, parentItems,
                     [pa |-> payApps, upserts |-> <<>>,
                      dist |-> [ItemsUpdated |-> 0, Details |-> <<>>],
                      quota |-> quota, err |-> FALSE]) :
            /\ payApps' = st.pa
            /\ dist' = IF st.err THEN [ItemsUpdated |-> 0, Details |-> <<>>] ELSE st.dist
            /\ upserts' = st.upserts
            /\ target' = targetMonth
            /\ before' = payApps
            /\ lastCall' = IF st.err THEN "DistributeParentQty: error"
                                      ELSE "DistributeParentQty"
            /\ UNCHANGED jobItems

----------------------------------------------------------------------------
(* SpecDistribute: DistributeParentQty over stored forests and facts *)

\* what an item has in the two months: nothing or 0.40 in month 1, nothing,
\* 0 or 0.20 in month 2
EarlierFacts == {{}, {Dec(4000)}}
LaterFacts == {{}, {Dec(0)}, {Dec(2000)}}

\* an item with total quantity 1.00 and numeric facts
RegularItems == [total : {Dec(10000)}, earlier : EarlierFacts, later : LaterFacts]

\* an item with total quantity 0, 0.50 or NaN, or with one fact whose qty is NaN
IrregularItems ==
    [total : {Dec(0), Dec(5000), NotANumber}, earlier : EarlierFacts, later : LaterFacts]
      \cup [total : {Dec(10000)}, earlier : {{NotANumber}}, later : LaterFacts]
      \cup [total : {Dec(10000)}, earlier : EarlierFacts, later : {{NotANumber}}]

\* the job_items rows of the forest with parent vector p whose item i is as
\* c[i] says
JobItemsOf(p, c) ==
    [i \in 1..Len(p) |-> MkJobItem(i, p[i], Dec(10000), c[i].total, Dec(10000))]

\* its pay_applications rows
PayAppsOf(p, c) ==
    UNION {{MkPayApp(i, 1, q) : q \in c[i].earlier}
              \cup {MkPayApp(i, 2, q) : q \in c[i].later} : i \in 1..Len(p)}

\* the stored job: a forest of at most MaxItems regular items, or a smaller
\* one with one irregular item
InitDistribute ==
    /\ IdleBuilder
    /\ IdleDistributor
    /\ IdleImport
    /\ \/ \E p \in ForestShapes(MaxItems) : \E c \in [1..Len(p) -> RegularItems] :
             /\ jobItems = JobItemsOf(p, c)
             /\ payApps = PayAppsOf(p, c)
       \/ \E p \in ForestShapes(MaxItems - 1) : \E c \in [1..Len(p) -> RegularItems] :
             \E i \in 1..Len(p) : \E x \in IrregularItems :
                /\ jobItems = JobItemsOf(p, [c EXCEPT ![i] = x])
                /\ payApps = PayAppsOf(p, [c EXCEPT ![i] = x])
    /\ result = [IsValid |-> TRUE, Errors |-> <<>>, Warnings |-> <<>>]
    /\ lastCall = "none"

\* the database answers every query
CallDistributeParentQty ==
    /\ \E targetMonth \in Months : DistributeParentQty(targetMonth, NoFailure(jobItems))
    /\ UNCHANGED <<rows, items, stack, itemCounter, pushes, pops, lastPops, tree, result, file, pc, imports>>

NextDistribute == CallDistributeParentQty

SpecDistribute == InitDistribute /\ [][NextDistribute]_vars

----------------------------------------------------------------------------
(* SpecFailing: DistributeParentQty against a database that may fail *)

\* an item with total quantity 1.00 and nothing, 0 or 0.20 in month 2
LateItems == [total : {Dec(10000)}, earlier : {{}}, later : LaterFacts]

\* the stored job: a forest of at most MaxItems such items
InitFailing ==
    /\ IdleBuilder
    /\ IdleDistributor
    /\ IdleImport
    /\ \E p \in ForestShapes(MaxItems) : \E c \in [1..Len(p) -> LateItems] :
          /\ jobItems = JobItemsOf(p, c)
          /\ payApps = PayAppsOf(p, c)
    /\ result = [IsValid |-> TRUE, Errors |-> <<>>, Warnings |-> <<>>]
    /\ lastCall = "none"

\* the database fails any one query of the loop, or none
CallDistributeParentQtyFailing ==
    /\ \E targetMonth \in Months : \E quota \in 0..NoFailure(jobItems) :
          DistributeParentQty(targetMonth, quota)
    /\ UNCHANGED <<rows, items, stack, itemCounter, pushes, pops, lastPops, tree, result, file, pc, imports>>

NextFailing == CallDistributeParentQtyFailing

SpecFailing == InitFailing /\ [][NextFailing]_vars

----------------------------------------------------------------------------
(* ImportBid *)

\* getOrCreateJob: the job is found or created, or the query fails and
\* ImportBid returns the error
GetOrCreateJob ==
    /\ pc = "idle"
    /\ pc' \in {"job", "error"}
    /\ UNCHANGED <<file, jobItems, rows, items, stack, itemCounter, pushes, pops, lastPops>>

\* q.DeleteJobItemsByJob(ctx, jobID): DELETE FROM job_items WHERE job_id = $1,
\* or the query fails and ImportBid returns the error
DeleteJobItemsByJob ==
    /\ pc = "job"
    /\ \/ jobItems' = <<>> /\ pc' = "cleared"
       \/ jobItems' = jobItems /\ pc' = "error"
    /\ UNCHANGED <<file, rows, items, stack, itemCounter, pushes, pops, lastPops>>

\* parseBidFile up to findBidHeaders: no sheets, GetRows failing, fewer than
\* two rows or no header row make it return an error
parseBidFile ==
    /\ pc = "cleared"
    /\ pc' = IF file.kind = "ok" THEN "building" ELSE "error"
    /\ UNCHANGED <<file, jobItems, rows, items, stack, itemCounter, pushes, pops, lastPops>>

\* buildBidItems: one iteration of its loop over the rows below the header
buildBidItems ==
    /\ pc = "building"
    /\ Len(rows) < Len(file.data)
    /\ \/ SkipRow(file.data[Len(rows) + 1])
       \/ BuildRow(file.data[Len(rows) + 1])
    /\ UNCHANGED <<file, pc, jobItems>>

\* q.InsertBidItem(ctx, item) for the next item built, once buildBidItems has
\* returned; the query failing makes parseBidFile return the error
InsertBidItem ==
    /\ pc = "building"
    /\ Len(rows) = Len(file.data)
    /\ Len(jobItems) < Len(items)
    /\ \/ jobItems' = Append(jobItems, items[Len(jobItems) + 1]) /\ pc' = pc
       \/ jobItems' = jobItems /\ pc' = "error"
    /\ UNCHANGED <<file, rows, items, stack, itemCounter, pushes, pops, lastPops>>

\* return &UploadResult{Success: true, ...}
ReturnUploadResult ==
    /\ pc = "building"
    /\ Len(rows) = Len(file.data)
    /\ Len(jobItems) = Len(items)
    /\ pc' = "done"
    /\ UNCHANGED <<file, jobItems, rows, items, stack, itemCounter, pushes, pops, lastPops>>

----------------------------------------------------------------------------
(* SpecImport: ImportBid over files and the items stored for the job *)

MaxImportRows == 2

\* a Pay Item of 1.00, a cost component of 1.00 and a row without description
ImportRows ==
    {KindRow("Work", PayItemKind, NumCell(10000)),
     KindRow("Work", LaborKind, NumCell(10000)),
     KindRow("  ", DetailKind, NumCell(10000))}

RECURSIVE RowSeqs(_)
\* the sequences of at most n such rows
RowSeqs(n) ==
    IF n = 0 THEN {<<>>}
    ELSE RowSeqs(n - 1)
           \cup {Append(rs, r) : rs \in {q \in RowSeqs(n - 1) : Len(q) = n - 1}, r \in ImportRows}

\* a file parseBidFile rejects, or one with a header row and data rows
Files(n) ==
    {MkFile(k, <<>>) : k \in {"no sheets", "unreadable", "fewer than 2 rows", "no header row"}}
      \cup {MkFile("ok", rs) : rs \in RowSeqs(n)}

\* what an earlier import may have stored for the job: nothing, or one item
StoredBefore ==
    {<<>>,
     <<[ID |-> 9, ParentID |-> NullUUID, SortOrder |-> 1, Description |-> "Stored",
        Budget |-> Dec(10000), ScheduledValue |-> Dec(0), Qty |-> Dec(0),
        UnitPrice |-> Dec(0), CostMethod |-> "Pay Item"]>>}

InitImport ==
    /\ BuilderInit
    /\ tree = <<>>
    /\ IdleDistributor
    /\ file \in Files(MaxImportRows)
    /\ pc = "idle"
    /\ imports = 0
    /\ jobItems \in StoredBefore
    /\ payApps = {}
    /\ result = [IsValid |-> TRUE, Errors |-> <<>>, Warnings |-> <<>>]
    /\ lastCall = "none"

ImportBid ==
    /\ \/ GetOrCreateJob
       \/ DeleteJobItemsByJob
       \/ parseBidFile
       \/ buildBidItems
       \/ InsertBidItem
       \/ ReturnUploadResult
    /\ UNCHANGED <<tree, payApps, result, lastCall, dist, target, before, upserts, imports>>

NextImport == ImportBid

SpecImport == InitImport /\ [][NextImport]_vars

----------------------------------------------------------------------------
(* ParsePayApp *)

\* InsertPayApplicationIfNotExists written as an upsert
InsertPayApplicationOverwriting(pa, id, month, qty) ==
    UpsertPayApplication(pa, id, month, qty)

\* InsertPayApplicationIfNotExists: ON CONFLICT (job_item_id, pay_app_month)
\* DO NOTHING
InsertPayApplicationIfNotExists(pa, id, month, qty) ==
    IF \E f \in pa : f.JobItemID = id /\ f.PayAppMonth = month THEN pa
    ELSE pa \cup {[JobItemID |-> id, PayAppMonth |-> month, Qty |-> qty,
                   StoredMaterials |-> Dec(0)]}

\* UpsertPayApplication with the stored materials of the SOV sheet
UpsertPayApplicationSOV(pa, id, month, qty, storedMaterials) ==
    {f \in pa : ~(f.JobItemID = id /\ f.PayAppMonth = month)}
        \cup {[JobItemID |-> id, PayAppMonth |-> month, Qty |-> qty,
               StoredMaterials |-> storedMaterials]}

RECURSIVE ImportMonthCols(_, _, _, _)
\* parseDetailSheet, the loop over the month columns of one row: an empty
\* cell is passed over, an Excel error ends the import, the target month is
\* upserted and any other month inserted if it has no fact
ImportMonthCols(monthCols, row, targetMonth, st) ==
    IF monthCols = <<>> \/ st.err THEN st
    ELSE LET mc == Head(monthCols)
             qtyVal == row.Qty[mc]
             cleanedQty == cleanNumeric(qtyVal)
         IN  ImportMonthCols(Tail(monthCols), row, targetMonth,
                IF qtyVal.kind = "blank" THEN st
                ELSE IF cleanedQty.err THEN [st EXCEPT !.err = TRUE]
                ELSE IF mc = targetMonth
                THEN [st EXCEPT !.pa = UpsertPayApplication(@, row.ID, mc, cleanedQty.str)]
                ELSE [st EXCEPT !.pa = InsertPayApplicationIfNotExists(@, row.ID, mc,
                                          cleanedQty.str)])

RECURSIVE parseDetailSheet(_, _, _, _)
\* parseDetailSheet, the loop over the data rows
parseDetailSheet(detail, monthCols, targetMonth, st) ==
    IF detail = <<>> \/ st.err THEN st
    ELSE parseDetailSheet(Tail(detail), monthCols, targetMonth,
            ImportMonthCols(monthCols, Head(detail), targetMonth, st))

RECURSIVE parseSOVSheet(_, _, _)
\* parseSOVSheet, the loop over the rows that match a parent item: the
\* target month's fact is upserted with THIS PERIOD and MATERIALS ON SITE
parseSOVSheet(sov, targetMonth, st) ==
    IF sov = <<>> \/ st.err THEN st
    ELSE LET row == Head(sov)
             thisPeriod == cleanNumeric(row.ThisPeriod)
             materials == cleanNumeric(row.Materials)
         IN  parseSOVSheet(Tail(sov), targetMonth,
                IF thisPeriod.err \/ materials.err THEN [st EXCEPT !.err = TRUE]
                ELSE [st EXCEPT !.pa = UpsertPayApplicationSOV(@, row.ID, targetMonth,
                                          thisPeriod.str, materials.str)])

\* the month columns of the Detail sheet, in column order
MonthCols == <<1, 2>>

\* a call of ParsePayApp(f, jobID, targetDate) on the workbook with the
\* Detail rows detail and the SOV rows sov; an error leaves what was written
ParsePayApp(targetMonth, detail, sov) ==
    LET start == [pa |-> payApps, err |-> FALSE]
        detailed == parseDetailSheet(detail, MonthCols, targetMonth, start)
        st == IF detailed.err THEN detailed ELSE parseSOVSheet(sov, targetMonth, detailed)
    IN  /\ payApps' = st.pa
        /\ file' = MkFile("pay app", [detail |-> detail, sov |-> sov])
        /\ target' = targetMonth
        /\ before' = payApps
        /\ lastCall' = IF st.err THEN "ParsePayApp: error" ELSE "ParsePayApp"
        /\ imports' = imports + 1

----------------------------------------------------------------------------
(* SpecPayApp: ParsePayApp over workbooks and stored facts *)

MaxImports == 2

\* a month's QTY cell: empty, 0.20 or #REF!
QtyCells == {BlankCell, NumCell(2000), ExcelErrorCell}

\* the Detail sheet: one row, of item 1
DetailSheets == {<<[ID |-> 1, Qty |-> q]>> : q \in [Months -> QtyCells]}

\* the SOV sheet: no row, or the row of item 1 with 0.30 this period and
\* 0.05 of materials on site, or with #REF!
SOVSheets ==
    {<<>>,
     <<[ID |-> 1, ThisPeriod |-> NumCell(3000), Materials |-> NumCell(500)]>>,
     <<[ID |-> 1, ThisPeriod |-> NumCell(3000), Materials |-> ExcelErrorCell]>>}

\* a fact as earlier imports left it: 0.40 with 0.10 of stored materials
StoredFact(id, month) ==
    [JobItemID |-> id, PayAppMonth |-> month, Qty |-> Dec(4000),
     StoredMaterials |-> Dec(1000)]

InitPayApp ==
    /\ IdleBuilder
    /\ IdleDistributor
    /\ IdleImport
    /\ jobItems = <<>>
    /\ \E K \in SUBSET ({1, 2} \X Months) :
          payApps = {StoredFact(k[1], k[2]) : k \in K}
    /\ result = [IsValid |-> TRUE, Errors |-> <<>>, Warnings |-> <<>>]
    /\ lastCall = "none"

CallParsePayApp ==
    /\ imports < MaxImports
    /\ \E targetMonth \in Months : \E detail \in DetailSheets : \E sov \in SOVSheets :
          ParsePayApp(targetMonth, detail, sov)
    /\ UNCHANGED <<rows, items, stack, itemCounter, pushes, pops, lastPops, tree,
                 jobItems, result, dist, upserts, pc>>

NextPayApp == CallParsePayApp

SpecPayApp == InitPayApp /\ [][NextPayApp]_vars

----------------------------------------------------------------------------
(* What the claims speak of, read off the state *)

\* the rows that are not skipped, in input order
NonSkipped(rs) == SelectSeq(rs, LAMBDA r : TrimSpace(r.Description) # "")

\* whether the k-th item built from the rows rs is classified can-have-children
CanHaveChildrenOf(rs, k) ==
    LET r == NonSkipped(rs)[k]
    IN  Classify(TrimSpace(r.ItemNumber), TrimSpace(r.CostMethod),
                 TrimSpace(r.ProductionRate)).canHaveChildren

\* the budget the builder computes with for the k-th item of its
BudgetOf(its, k) == IF its[k].Budget.valid THEN its[k].Budget.val ELSE 0

\* the row the k-th item was built from
RowOfItem(k) == NonSkipped(rows)[k]

\* the positions of the items whose ID is id
ItemsWithID(id) == {j \in 1..Len(items) : items[j].ID = id}

\* a frame whose running sum is strictly below its target less 0.01
FrameOpen(f) == f.sum < f.target - 100

Max(S) == CHOOSE m \in S : \A x \in S : x <= m

\* the budget written in a row's Total Direct Cost cell
RowBudget(r) == r.TotalDirectCost.num

\* whether the row is classified can-have-children
RowCanHaveChildren(r) ==
    \/ r.ItemNumber # ""
    \/ r.CostMethod = "Detail"
    \/ (r.CostMethod = "" /\ r.ProductionRate # "")

RECURSIVE SumRowBudgets(_, _)
SumRowBudgets(t, S) ==
    IF S = {} THEN 0
    ELSE LET j == CHOOSE x \in S : TRUE
         IN  RowBudget(t[j].row) + SumRowBudgets(t, S \ {j})

\* the tree t is numbered in pre-order, every budget is a positive whole
\* amount, a node with children can have children and has the sum of its
\* children's budgets, and a node that can have children has a child
WellFormedTree(t) ==
    /\ t # <<>>
    /\ t[1].parent = 0
    /\ \A i \in 2..Len(t) :
          /\ t[i].parent \in 1..(i - 1)
          /\ \A j \in (t[i].parent + 1)..(i - 1) :
                t[i].parent \in AncestorsOrSelf([k \in 1..Len(t) |-> t[k].parent], j)
    /\ \A i \in 1..Len(t) :
          LET kids == {j \in 1..Len(t) : t[j].parent = i}
          IN  /\ t[i].row.TotalDirectCost.kind = "number"
              /\ RowBudget(t[i].row) > 0
              /\ RowBudget(t[i].row) % 10000 = 0
              /\ kids # {} => RowCanHaveChildren(t[i].row)
              /\ kids # {} => RowBudget(t[i].row) = SumRowBudgets(t, kids)
              /\ RowCanHaveChildren(t[i].row) => kids # {}

\* C1: fed the pre-order of a well-formed budget tree, buildBidItems gives
\* every node the parent it has in the tree.
C1_RoundTrip ==
    WellFormedTree(tree) =>
        /\ Len(rows) = Len(tree) => Len(items) = Len(tree)
        /\ \A i \in 1..Len(items) :
              items[i].ParentID =
                 IF tree[i].parent = 0 THEN NullUUID ELSE items[tree[i].parent].ID

\* C1 witness: Example 1 is rebuilt (Pay Item 1000 -> Detail A 600 {Labor 300,
\* Equipment 300}, Detail B 400 {Material 400})
C1_Witness ==
    /\ WellFormedTree(tree)
    /\ [i \in 1..Len(tree) |-> tree[i].parent] = <<0, 1, 2, 2, 1, 5>>
    /\ [i \in 1..Len(tree) |-> RowBudget(tree[i].row)]
          = <<10000000, 6000000, 3000000, 3000000, 4000000, 4000000>>
    /\ [i \in 1..Len(items) |-> items[i].ParentID] = <<0, 1, 2, 2, 1, 5>>
    /\ [i \in 1..Len(items) |-> items[i].CostMethod]
          = <<"Pay Item", "Detail", "Labor", "Labor", "Detail", "Labor">>

\* Example 2 is rebuilt (Pay Item 1000 -> Detail A 1000 -> {Detail B 600 ->
\* Labor 600, Detail C 400 -> Material 400})
Example2Rebuilt ==
    /\ WellFormedTree(tree)
    /\ [i \in 1..Len(tree) |-> RowBudget(tree[i].row)]
          = <<10000000, 10000000, 6000000, 6000000, 4000000, 4000000>>
    /\ [i \in 1..Len(items) |-> items[i].ParentID] = <<0, 1, 2, 3, 2, 5>>

\* C2: a row that yields an item first pops every complete frame off the top,
\* as many as there are, and only then takes its parent: the item is a root
\* exactly when no open frame exists, and otherwise its parent is the owner of
\* the topmost open frame, to whose running sum its budget is added.
C2_PopBeforeAssign ==
    [][ Len(items') = Len(items) + 1 =>
          LET open == {i \in 1..Len(stack) : FrameOpen(stack[i])}
              new == items'[Len(items) + 1]
              b == IF new.Budget.valid THEN new.Budget.val ELSE 0
          IN  /\ (new.ParentID = NullUUID) <=> (open = {})
              /\ open = {} => lastPops' = Len(stack)
              /\ open # {} =>
                   LET m == Max(open)
                   IN  /\ new.ParentID = stack[m].item
                       /\ stack[m].sum < stack[m].target - 100
                       /\ lastPops' = Len(stack) - m
                       /\ \A i \in (m + 1)..Len(stack) : ~FrameOpen(stack[i])
                       /\ SubSeq(stack', 1, m - 1) = SubSeq(stack, 1, m - 1)
                       /\ stack'[m] = [stack[m] EXCEPT !.sum = @ + b]
      ]_vars

\* C2 witness: one row popped two complete ancestors and was parented after
C2_Witness ==
    /\ lastPops >= 2
    /\ Len(items) >= 4
    /\ items[Len(items)].ParentID # items[Len(items) - 1].ParentID

\* C3: the parent of an item is an item of the same output with a strictly
\* smaller sortOrder.
C3_ParentEarlier ==
    \A k \in 1..Len(items) :
        items[k].ParentID # NullUUID =>
            \E j \in 1..Len(items) :
                /\ items[j].ID = items[k].ParentID
                /\ items[j].SortOrder < items[k].SortOrder

\* C3 witness: an item whose parent itself has a parent
C3_Witness ==
    \E k \in 1..Len(items) :
        /\ items[k].ParentID # NullUUID
        /\ \E j \in 1..Len(items) :
              items[j].ID = items[k].ParentID /\ items[j].ParentID # NullUUID

RECURSIVE ReachesRoot(_, _)
\* following parent links from id ends at a root within fuel steps
ReachesRoot(id, fuel) ==
    IF id = NullUUID THEN TRUE
    ELSE IF fuel = 0 \/ ItemsWithID(id) = {} THEN FALSE
    ELSE \A j \in ItemsWithID(id) : ReachesRoot(items[j].ParentID, fuel - 1)

\* C5: whatever the rows, the parent links form a forest: identifiers are
\* unique and from every item the parent links lead to a root without
\* meeting a missing item or the same item twice.
C5_Forest ==
    /\ \A j, k \in 1..Len(items) : items[j].ID = items[k].ID => j = k
    /\ \A k \in 1..Len(items) : ReachesRoot(items[k].ID, Len(items))

\* C5 witness: a chain of three items in an input holding a negative, a zero
\* and an unparsable budget whose sums never match
C5_Witness ==
    /\ \E k \in 1..Len(items) : ~items[k].Budget.valid
    /\ \E k \in 1..Len(items) : items[k].Budget.valid /\ items[k].Budget.val < 0
    /\ \E k \in 1..Len(items) :
          /\ items[k].ParentID # NullUUID
          /\ \E j \in ItemsWithID(items[k].ParentID) : items[j].ParentID # NullUUID
    /\ stack # <<>>

\* C6: a frame is pushed exactly for a can-have-children item whose budget is
\* above zero; so every parent is can-have-children with a positive budget,
\* and the item after a zero-budget can-have-children item takes that item's
\* parent (or is a root like it), never the zero-budget item.
C6_PushIffBudget ==
    [][ Len(items') = Len(items) + 1 =>
          LET n == Len(items) + 1
              new == items'[n]
              chc == CanHaveChildrenOf(rows', n)
              b == BudgetOf(items', n)
          IN  /\ (pushes' = pushes + 1) <=> (chc /\ b > 0)
              /\ (pushes' = pushes) <=> ~(chc /\ b > 0)
              /\ (chc /\ b > 0) <=>
                    /\ stack' # <<>>
                    /\ stack'[Len(stack')] = [item |-> new.ID, target |-> b, sum |-> 0]
              /\ \A k \in 1..n :
                    items'[k].ParentID # NullUUID =>
                       \E j \in 1..n :
                          /\ items'[j].ID = items'[k].ParentID
                          /\ CanHaveChildrenOf(rows', j)
                          /\ BudgetOf(items', j) > 0
              /\ \A k \in 1..(n - 1) :
                    (CanHaveChildrenOf(rows', k) /\ BudgetOf(items', k) = 0) =>
                       /\ items'[k + 1].ParentID = items'[k].ParentID
                       /\ items'[k + 1].ParentID # items'[k].ID
      ]_vars

\* C6 witness: a zero-budget Detail under a parent, and the next item under
\* that same parent
C6_Witness ==
    \E k \in 1..(Len(items) - 1) :
        /\ items[k].CostMethod = "Detail"
        /\ items[k].Budget = Dec(0)
        /\ items[k].ParentID # NullUUID
        /\ items[k + 1].ParentID = items[k].ParentID

\* the type and can-have-children flag the five rules give a row, each rule
\* stated with the failure of the rules before it
ExpectedClass(r) ==
    LET i == IF r.ItemNumber \in {"", " "} THEN "" ELSE r.ItemNumber
        c == IF r.CostMethod \in {"", " "} THEN "" ELSE r.CostMethod
        p == IF r.ProductionRate \in {"", " "} THEN "" ELSE r.ProductionRate
        isDetail == c \in {"Detail", "DETAIL", "detail"}
        isSub == c \in {"Subcontracted", "subcontracted"}
    IN  CASE i # "" -> <<"Pay Item", TRUE>>
          [] i = "" /\ isDetail -> <<"Detail", TRUE>>
          [] i = "" /\ ~isDetail /\ isSub -> <<"Subcontracted", FALSE>>
          [] i = "" /\ c = "" /\ p # "" -> <<"Crew", TRUE>>
          [] i = "" /\ c = "" /\ p = "" -> <<"Cost", FALSE>>
          [] i = "" /\ c # "" /\ ~isDetail /\ ~isSub -> <<c, FALSE>>

\* C7: every row is classified, by the first rule that matches: item number,
\* then Detail, then Subcontracted (both ignoring case), then Crew, then the
\* raw cost method or "Cost"; with a positive budget the item is pushed
\* exactly when the rule says it can have children.
C7_ClassifyPriority ==
    /\ Len(items) = Len(rows)
    /\ \A k \in 1..Len(items) : items[k].CostMethod = ExpectedClass(rows[k])[1]
    /\ pushes = Cardinality({k \in 1..Len(rows) : ExpectedClass(rows[k])[2]})

\* C7 witness: a row with an item number and the cost method Detail is a Pay Item
C7_Witness ==
    /\ Len(items) = 1
    /\ rows[1].ItemNumber = "1"
    /\ rows[1].CostMethod = "DETAIL"
    /\ items[1].CostMethod = "Pay Item"
    /\ pushes = 1

RECURSIVE SumOfBudgets(_, _)
\* the sum of the budgets of the items S, a budget that is no number counting zero
SumOfBudgets(ji, S) ==
    IF S = {} THEN 0
    ELSE LET c == CHOOSE x \in S : TRUE
         IN  (IF ji[c].Budget.valid THEN ji[c].Budget.val ELSE 0)
                + SumOfBudgets(ji, S \ {c})

DirectChildren(i) == {c \in 1..Len(jobItems) : jobItems[c].ParentID = jobItems[i].ID}

\* the distance between the budget of item i and the sum of its children's
BudgetGap(i) ==
    LET d == jobItems[i].Budget.val - SumOfBudgets(jobItems, DirectChildren(i))
    IN  IF d < 0 THEN -d ELSE d

\* the errors of the result that name item i
ErrorsAbout(i) ==
    {e \in 1..Len(result.Errors) : result.Errors[e].ParentItemID = jobItems[i].ID}

\* C8: ValidateBudgetHierarchy lists exactly one BUDGET_MISMATCH for every
\* item that has a child and whose (numeric) budget differs from the sum of
\* its children's budgets by more than 0.01, and nothing else.
C8_BudgetMismatchIff ==
    lastCall = "ValidateBudgetHierarchy" =>
        /\ \A i \in 1..Len(jobItems) :
              Cardinality(ErrorsAbout(i)) =
                 IF /\ DirectChildren(i) # {}
                    /\ jobItems[i].Budget.valid
                    /\ BudgetGap(i) > 100
                 THEN 1 ELSE 0
        /\ \A e \in 1..Len(result.Errors) :
              /\ result.Errors[e].Type = "BUDGET_MISMATCH"
              /\ \E i \in 1..Len(jobItems) : result.Errors[e].ParentItemID = jobItems[i].ID

\* C8 witness: two parents mismatch, one below and one above its child, both listed
C8_Witness ==
    /\ lastCall = "ValidateBudgetHierarchy"
    /\ Len(result.Errors) = 2
    /\ result.Errors[1].ParentItemID # result.Errors[2].ParentItemID
    /\ \E i, j \in 1..Len(jobItems) :
          /\ DirectChildren(i) # {} /\ DirectChildren(j) # {}
          /\ jobItems[i].Budget.val > SumOfBudgets(jobItems, DirectChildren(i))
          /\ jobItems[j].Budget.val < SumOfBudgets(jobItems, DirectChildren(j))
          /\ jobItems[i].Budget.valid /\ jobItems[j].Budget.valid

\* C9: a parent whose budget is exactly 0.01 from its children's sum is not
\* listed, one that is 0.011 from it is.
C9_ToleranceInclusive ==
    lastCall = "ValidateBudgetHierarchy" =>
        \A i \in 1..Len(jobItems) :
            (DirectChildren(i) # {} /\ jobItems[i].Budget.valid) =>
                /\ BudgetGap(i) = 100 => ErrorsAbout(i) = {}
                /\ BudgetGap(i) = 110 => ErrorsAbout(i) # {}

\* C9 witness: one parent at 0.01 from its child and not listed, another at
\* 0.011 and listed
C9_Witness ==
    /\ lastCall = "ValidateBudgetHierarchy"
    /\ \E i, j \in 1..Len(jobItems) :
          /\ DirectChildren(i) # {} /\ jobItems[i].Budget.valid
          /\ DirectChildren(j) # {} /\ jobItems[j].Budget.valid
          /\ \A c \in DirectChildren(i) \cup DirectChildren(j) : jobItems[c].Budget.valid
          /\ BudgetGap(i) = 100 /\ ErrorsAbout(i) = {}
          /\ BudgetGap(j) = 110 /\ ErrorsAbout(j) # {}

\* the fact of item i for month m, as a set of none or one
FactsOf(i, m) == {f \in payApps : f.JobItemID = jobItems[i].ID /\ f.PayAppMonth = m}

\* quantity times unit price of item i for month m, zero without a fact or
\* with a unit price that is no number
BilledAmount(i, m) ==
    IF FactsOf(i, m) = {} \/ ~jobItems[i].UnitPrice.valid THEN 0
    ELSE (CHOOSE f \in FactsOf(i, m) : TRUE).Qty.val * jobItems[i].UnitPrice.val

RECURSIVE SumOfAmounts(_, _)
SumOfAmounts(S, m) ==
    IF S = {} THEN 0
    ELSE LET c == CHOOSE x \in S : TRUE
         IN  BilledAmount(c, m) + SumOfAmounts(S \ {c}, m)

\* the distance between the parent's amount and its children's, in units of
\* 0.00000001
AmountGap(i, m) ==
    LET d == BilledAmount(i, m) - SumOfAmounts(DirectChildren(i), m)
    IN  IF d < 0 THEN -d ELSE d

\* the errors of the result that name item i and month m
MonthlyErrorsAbout(i, m) ==
    {e \in 1..Len(result.Errors) :
        /\ result.Errors[e].ParentItemID = jobItems[i].ID
        /\ result.Errors[e].Month = m}

\* C10: ValidateMonthlyAmounts lists one MONTHLY_AMOUNT_MISMATCH with the
\* month for every parent and month where the parent has a fact and its
\* (numeric) quantity times unit price is more than 0.01 from the sum of its children's
\* (zero for a child without a fact), and nothing else: nothing for a parent
\* without a fact in the month, whatever its children have.
C10_MonthlyMismatchIff ==
    lastCall = "ValidateMonthlyAmounts" =>
        /\ \A i \in 1..Len(jobItems) : \A m \in {f.PayAppMonth : f \in payApps} :
              Cardinality(MonthlyErrorsAbout(i, m)) =
                 IF /\ DirectChildren(i) # {}
                    /\ FactsOf(i, m) # {}
                    /\ jobItems[i].UnitPrice.valid
                    /\ AmountGap(i, m) > 1000000
                 THEN 1 ELSE 0
        /\ \A e \in 1..Len(result.Errors) :
              /\ result.Errors[e].Type = "MONTHLY_AMOUNT_MISMATCH"
              /\ result.Errors[e].Month \in {f.PayAppMonth : f \in payApps}
              /\ \E i \in 1..Len(jobItems) : result.Errors[e].ParentItemID = jobItems[i].ID

\* C10 witness: in one month the parent has no fact while its child has one
\* and nothing is listed; in the other the parent has a fact, one child has
\* none, and the mismatch is listed with that month
C10_Witness ==
    /\ lastCall = "ValidateMonthlyAmounts"
    /\ \E i \in 1..Len(jobItems) : \E m1, m2 \in Months :
          /\ m1 # m2
          /\ FactsOf(i, m1) = {}
          /\ \E c \in DirectChildren(i) : FactsOf(c, m1) # {}
          /\ MonthlyErrorsAbout(i, m1) = {}
          /\ FactsOf(i, m2) # {}
          /\ \E c \in DirectChildren(i) : FactsOf(c, m2) = {}
          /\ \E c \in DirectChildren(i) : FactsOf(c, m2) # {}
          /\ Cardinality(MonthlyErrorsAbout(i, m2)) = 1

\* buildBidItems' loop body as a function of the items, stack and counter
\* built so far, for a row that yields an item
BuildStep(st, row) ==
    LET budgetStr == cleanNumeric(row.TotalDirectCost).str
        budget == NewFromString(budgetStr).d
        class == Classify(getCellValue(row.ItemNumber), getCellValue(row.CostMethod),
                          getCellValue(row.ProductionRate))
        popped == PopCompleted(st.stack)
        added == AddToParent(popped, budget)
        itemID == st.itemCounter + 1
        item == [ID |-> itemID, ParentID |-> AssignParent(popped),
                 SortOrder |-> st.itemCounter + 1,
                 Description |-> getCellValue(row.Description), Budget |-> budgetStr,
                 ScheduledValue |-> parseNumericField(row.TotalBidPrice),
                 Qty |-> parseNumericField(row.Quantity),
                 UnitPrice |-> calculateUnitPrice(row),
                 CostMethod |-> class.costMethod]
    IN  [items |-> Append(st.items, item),
         stack |-> IF ShouldPush(class.canHaveChildren, budget)
                   THEN Append(added, [item |-> itemID, target |-> budget, sum |-> 0])
                   ELSE added,
         itemCounter |-> st.itemCounter + 1]

RECURSIVE BuildAll(_, _)
\* the loop over rows that all yield items
BuildAll(st, rs) ==
    IF rs = <<>> THEN st ELSE BuildAll(BuildStep(st, Head(rs)), Tail(rs))

----------------------------------------------------------------------------
(* DistributeParentQty: what the claims speak of *)

\* the facts of item i in the table pa
FactsIn(pa, i) == {f \in pa : f.JobItemID = jobItems[i].ID}

\* the quantity item i had for month m when the call began, as a set of none or one
QtyBefore(i, m) ==
    {f.Qty : f \in {g \in before : g.JobItemID = jobItems[i].ID /\ g.PayAppMonth = m}}

\* item i had a non-zero quantity for the target month when the call began
HadNonZeroQty(i) == \E q \in QtyBefore(i, target) : q.valid /\ q.val # 0

\* a direct child of item i had one
ChildDataEntered(i) == \E c \in DirectChildren(i) : HadNonZeroQty(c)

\* the upserts of the call that wrote a fact of item c
UpsertsOf(c) == {k \in 1..Len(upserts) : upserts[k].JobItemID = jobItems[c].ID}

\* the call left the facts of the children of item i alone
ChildrenUntouched(i) ==
    \A c \in DirectChildren(i) :
        FactsIn(payApps, c) = FactsIn(before, c) /\ UpsertsOf(c) = {}

\* the parents of the job
Parents == {i \in 1..Len(jobItems) : DirectChildren(i) # {}}

\* C11: DistributeParentQty leaves every fact of the children of a parent
\* alone when one of them had a non-zero quantity for the target month before
\* the call; when every parent has such a child the call writes nothing and
\* reports itemsUpdated = 0.
C11_NeverOverwrites ==
    lastCall = "DistributeParentQty" =>
        /\ \A i \in Parents : ChildDataEntered(i) => ChildrenUntouched(i)
        /\ (\A i \in Parents : ChildDataEntered(i)) =>
              /\ payApps = before
              /\ upserts = <<>>
              /\ dist = [ItemsUpdated |-> 0, Details |-> <<>>]

\* C11 witness: a parent with a quantity to distribute, one child with a
\* non-zero quantity and one without a fact for the target month, after the call
C11_Witness ==
    /\ lastCall = "DistributeParentQty"
    /\ \E i \in Parents :
          /\ HadNonZeroQty(i)
          /\ jobItems[i].Qty.valid /\ jobItems[i].Qty.val # 0
          /\ \E c \in DirectChildren(i) : HadNonZeroQty(c)
          /\ \E c \in DirectChildren(i) : QtyBefore(c, target) = {} /\ FactsIn(payApps, c) = FactsIn(before, c)
    /\ \A i \in Parents : ChildDataEntered(i)
    /\ dist.ItemsUpdated = 0

\* the item with the given id, and the parent of item c
ItemWithID(id) == CHOOSE i \in 1..Len(jobItems) : jobItems[i].ID = id
ParentOf(c) == ItemWithID(jobItems[c].ParentID)

\* the sum of the quantities of item c in the months strictly before the
\* target month, zero without any
PrevBefore(c) == SumQty({f \in before : f.JobItemID = jobItems[c].ID /\ f.PayAppMonth < target})

\* max(0, childTotalQty x (parentCumulativeQty through the target month /
\* parentTotalQty) - childPrev), in units of 0.0001
ClaimedMonthQty(c) ==
    LET p == ParentOf(c)
        parentCumulative == SumQty({f \in payApps : f.JobItemID = jobItems[p].ID
                                                      /\ f.PayAppMonth <= target}).val
        v == jobItems[c].Qty.val * ((parentCumulative * 10000) \div jobItems[p].Qty.val)
                - PrevBefore(c).val * 10000
    IN  (IF v < 0 THEN 0 ELSE v) \div 10000

\* C12: every quantity DistributeParentQty writes is max(0, childTotalQty x
\* parentPercentComplete - childPrev), childPrev being the child's quantities
\* of the months strictly before the target month, also for a child that had
\* no fact for the target month.
C12_QtyWrittenAsClaimed ==
    lastCall = "DistributeParentQty" =>
        \A k \in 1..Len(upserts) :
            PrevBefore(ItemWithID(upserts[k].JobItemID)).valid =>
                upserts[k].Qty = Dec(ClaimedMonthQty(ItemWithID(upserts[k].JobItemID)))

\* childTotalQty x parentPercentComplete of item c, in units of 0.00000001
NewCumulativeOf(c) ==
    LET p == ParentOf(c)
        parentCumulative == SumQty({f \in payApps : f.JobItemID = jobItems[p].ID
                                                      /\ f.PayAppMonth <= target}).val
    IN  jobItems[c].Qty.val * ((parentCumulative * 10000) \div jobItems[p].Qty.val)

\* C13: DistributeParentQty writes no negative quantity, and writes exactly
\* zero when childTotalQty x parentPercentComplete is less than the child's
\* cumulative quantity of the months before the target month.
C13_ZeroWhenBehind ==
    lastCall = "DistributeParentQty" =>
        \A k \in 1..Len(upserts) :
            /\ upserts[k].Qty.valid /\ upserts[k].Qty.val >= 0
            /\ LET c == ItemWithID(upserts[k].JobItemID)
               IN  (PrevBefore(c).valid /\ NewCumulativeOf(c) < PrevBefore(c).val * 10000)
                      => upserts[k].Qty.val = 0

\* the details of the result that name item i
DetailsAbout(i) ==
    {k \in 1..Len(dist.Details) : dist.Details[k].ParentItemID = jobItems[i].ID}

\* when the call began item i had no fact for the target month, or a quantity
\* of zero for it, or no children, or a total quantity of zero, or a
\* cumulative quantity that is no number
NothingToDistribute(i) ==
    \/ QtyBefore(i, target) = {}
    \/ \E q \in QtyBefore(i, target) : q.valid /\ q.val = 0
    \/ DirectChildren(i) = {}
    \/ (jobItems[i].Qty.valid /\ jobItems[i].Qty.val = 0)
    \/ ~SumQty({f \in before : f.JobItemID = jobItems[i].ID /\ f.PayAppMonth <= target}).valid

\* C14: DistributeParentQty leaves the facts of the children of an item alone
\* and reports no detail for the item when the item has no fact for the target
\* month, or a zero quantity for it, or no children, or a zero total quantity,
\* or a cumulative quantity that cannot be determined.
C14_SkippedParentUntouched ==
    lastCall = "DistributeParentQty" =>
        \A i \in 1..Len(jobItems) :
            NothingToDistribute(i) => ChildrenUntouched(i) /\ DetailsAbout(i) = {}

\* C15: a second run of DistributeParentQty for the same target month leaves
\* every fact as the first run left it, in every forest and every order of
\* the parents.
C15_RerunIdempotent ==
    [][(lastCall = "DistributeParentQty" /\ lastCall' = "DistributeParentQty"
          /\ target' = target) => payApps' = payApps]_vars

RECURSIVE SumChildrenCount(_)
\* the sum of childrenCount over the details
SumChildrenCount(details) ==
    IF details = <<>> THEN 0
    ELSE Head(details).ChildrenCount + SumChildrenCount(Tail(details))

\* the upserts of the call that wrote a fact of a child of item i
UpsertsBelow(i) == UNION {UpsertsOf(c) : c \in DirectChildren(i)}

\* C19: itemsUpdated is the number of facts the call upserted and the sum of
\* childrenCount over the details; every parent with a child written has
\* exactly one detail, counting its children written, and no other item has one.
C19_ResultAccountsForWrites ==
    lastCall = "DistributeParentQty" =>
        /\ dist.ItemsUpdated = Len(upserts)
        /\ dist.ItemsUpdated = SumChildrenCount(dist.Details)
        /\ \A i \in 1..Len(jobItems) :
              /\ Cardinality(DetailsAbout(i)) = IF UpsertsBelow(i) # {} THEN 1 ELSE 0
              /\ \A k \in DetailsAbout(i) :
                    /\ dist.Details[k].ChildrenCount = Cardinality(UpsertsBelow(i))
                    /\ dist.Details[k].Month = target
        /\ \A k \in 1..Len(dist.Details) :
              \E i \in 1..Len(jobItems) : dist.Details[k].ParentItemID = jobItems[i].ID

\* C19 witness: a call that wrote one child for each of two parents
C19_Witness ==
    /\ lastCall = "DistributeParentQty"
    /\ Len(dist.Details) = 2
    /\ dist.Details[1].ParentItemID # dist.Details[2].ParentItemID
    /\ dist.ItemsUpdated = 2
    /\ Len(upserts) = 2

----------------------------------------------------------------------------
(* The validators: what the claims speak of *)

\* C16: a second run of ValidateBudgetHierarchy on the unchanged items gives
\* the result of the first: the same IsValid, errors and warnings.
C16_SameResultTwice ==
    [][(lastCall = "ValidateBudgetHierarchy" /\ lastCall' = "ValidateBudgetHierarchy"
          /\ jobItems' = jobItems) => result' = result]_vars

Validators == {"ValidateBudgetHierarchy", "ValidateMonthlyAmounts", "ValidateAll"}

\* C17: a call of ValidateBudgetHierarchy, ValidateMonthlyAmounts or
\* ValidateAll leaves every item and every pay-application fact as it was.
C17_ValidatorsReadOnly ==
    [][lastCall' \in Validators => (jobItems' = jobItems /\ payApps' = payApps)]_vars

\* C17 witness: ValidateAll has run on a job with facts and has reported a
\* budget mismatch and a monthly mismatch
C17_Witness ==
    /\ lastCall = "ValidateAll"
    /\ payApps # {}
    /\ \E e \in 1..Len(result.Errors) : result.Errors[e].Type = "BUDGET_MISMATCH"
    /\ \E e \in 1..Len(result.Errors) : result.Errors[e].Type = "MONTHLY_AMOUNT_MISMATCH"

\* the errors of the result of the given type
ErrorsOfType(t) == {e \in 1..Len(result.Errors) : result.Errors[e].Type = t}

\* C18: in the result of a validator IsValid is true exactly when there is no
\* error, whatever the warnings; the errors of ValidateAll are the budget
\* mismatches (one for every mismatching parent) followed by the monthly
\* mismatches (one for every mismatching parent and month).
C18_ValidIffNoErrors ==
    lastCall \in Validators =>
        /\ result.IsValid <=> (result.Errors = <<>>)
        /\ lastCall = "ValidateAll" =>
              /\ \A e1, e2 \in 1..Len(result.Errors) :
                    (result.Errors[e1].Type = "BUDGET_MISMATCH"
                       /\ result.Errors[e2].Type = "MONTHLY_AMOUNT_MISMATCH") => e1 < e2
              /\ ErrorsOfType("BUDGET_MISMATCH") \cup ErrorsOfType("MONTHLY_AMOUNT_MISMATCH")
                    = 1..Len(result.Errors)
              /\ \A i \in 1..Len(jobItems) :
                    Cardinality(ErrorsAbout(i) \cap ErrorsOfType("BUDGET_MISMATCH")) =
                       IF /\ DirectChildren(i) # {}
                          /\ jobItems[i].Budget.valid
                          /\ BudgetGap(i) > 100
                       THEN 1 ELSE 0
              /\ \A i \in 1..Len(jobItems) : \A m \in {f.PayAppMonth : f \in payApps} :
                    Cardinality(MonthlyErrorsAbout(i, m) \cap ErrorsOfType("MONTHLY_AMOUNT_MISMATCH")) =
                       IF /\ DirectChildren(i) # {}
                          /\ FactsOf(i, m) # {}
                          /\ jobItems[i].UnitPrice.valid
                          /\ AmountGap(i, m) > 1000000
                       THEN 1 ELSE 0

\* C18 witness: ValidateAll has reported a warning, a budget mismatch and a
\* monthly mismatch, and the result is invalid
C18_Witness ==
    /\ lastCall = "ValidateAll"
    /\ ~result.IsValid
    /\ result.Warnings # <<>>
    /\ ErrorsOfType("BUDGET_MISMATCH") # {}
    /\ ErrorsOfType("MONTHLY_AMOUNT_MISMATCH") # {}

----------------------------------------------------------------------------
(* The unit price: what the claim speaks of *)

\* the number a stored numeric text stands for, zero when it is none
NumberOf(text) == NewFromString(text).d

\* C21: every item built has unitPrice = scheduledValue / quantity (to the
\* four decimals it is stored with) when its quantity is a number strictly
\* greater than zero, and unitPrice = 0 when the quantity is zero, negative
\* or not a number.
C21_UnitPriceOnlyForPositiveQty ==
    \A k \in 1..Len(items) :
        LET it == items[k]
        IN  IF it.Qty.valid /\ NumberOf(it.Qty) > 0
            THEN it.UnitPrice = Dec(DivStringFixed4(NumberOf(it.ScheduledValue), NumberOf(it.Qty)))
            ELSE it.UnitPrice = Dec(0)

----------------------------------------------------------------------------
(* Budgets that are no numbers: what the claim speaks of *)

\* the warnings of the result that name item i
WarningsAbout(i) ==
    {w \in 1..Len(result.Warnings) : result.Warnings[w].item = jobItems[i].ID}

\* item i is the child of a stored item
HasStoredParent(i) == \E q \in 1..Len(jobItems) : jobItems[q].ID = jobItems[i].ParentID

\* C22: ValidateBudgetHierarchy warns once about every budget it reads that
\* is no number (once as a child's, once as a parent's) and about nothing
\* else; such a child counts as zero in its parent's sum, such a parent is
\* not compared, and every other parent is compared all the same: it has an
\* error exactly when its budget is more than 0.01 from its children's sum.
C22_UnparsableBudgetNeverAborts ==
    lastCall = "ValidateBudgetHierarchy" =>
        /\ \A i \in 1..Len(jobItems) :
              Cardinality(WarningsAbout(i)) =
                 IF jobItems[i].Budget.valid THEN 0
                 ELSE (IF HasStoredParent(i) THEN 1 ELSE 0)
                        + (IF DirectChildren(i) # {} THEN 1 ELSE 0)
        /\ \A i \in 1..Len(jobItems) :
              (DirectChildren(i) # {} /\ ~jobItems[i].Budget.valid) => ErrorsAbout(i) = {}
        /\ \A i \in 1..Len(jobItems) :
              (DirectChildren(i) # {} /\ jobItems[i].Budget.valid) =>
                 (ErrorsAbout(i) # {} <=> BudgetGap(i) > 100)

\* C22 witness: a result with a warning about a child budget that is no
\* number and an error about another parent, whose children's budgets are
\* all numbers
C22_Witness ==
    /\ lastCall = "ValidateBudgetHierarchy"
    /\ \E i, j \in 1..Len(jobItems) :
          /\ ~jobItems[i].Budget.valid
          /\ HasStoredParent(i)
          /\ WarningsAbout(i) # {}
          /\ jobItems[j].ID # jobItems[i].ParentID
          /\ \A c \in DirectChildren(j) : jobItems[c].Budget.valid
          /\ ErrorsAbout(j) # {}

----------------------------------------------------------------------------
(* DistributeParentQty ending with an error: what the claim speaks of *)

\* C23: when a call of DistributeParentQty returns an error, the facts are
\* those the call found: it has created or changed none.
C23_ErrorLeavesFactsAlone ==
    lastCall = "DistributeParentQty: error" => payApps = before

----------------------------------------------------------------------------
(* ImportBid: what the claim speaks of *)

\* buildBidItems has returned the items of the whole file
BuildReturned == pc \in {"building", "done"} /\ Len(rows) = Len(file.data)

\* C24: the stored items of the job are inserted, changed or deleted by
\* ImportBid only after buildBidItems has returned, so that a call that fails
\* earlier leaves them as they were.
C24_NothingPersistedBeforeBuilt ==
    [][jobItems' # jobItems => BuildReturned]_vars

----------------------------------------------------------------------------
(* The stack of buildBidItems: what the claims speak of *)

\* the items created so far whose parent is the item with identifier id
ChildrenSoFar(id) == {k \in 1..Len(items) : items[k].ParentID = id}

RECURSIVE SumItemBudgets(_)
\* the sum of the budgets of the items at the positions S
SumItemBudgets(S) ==
    IF S = {} THEN 0
    ELSE LET k == CHOOSE x \in S : TRUE
         IN  BudgetOf(items, k) + SumItemBudgets(S \ {k})

\* C25: during the pass every frame on the stack has the budget of its owner
\* as target and, as running sum, the sum of the budgets of the items created
\* so far whose parent is its owner.
C25_FrameSums ==
    \A i \in 1..Len(stack) :
        /\ \E k \in 1..Len(items) :
              items[k].ID = stack[i].item /\ stack[i].target = BudgetOf(items, k)
        /\ stack[i].sum = SumItemBudgets(ChildrenSoFar(stack[i].item))

\* C25 witness: two frames, the lower with two children so far (the owner of
\* the upper frame and one before it), the upper with one
C25_Witness ==
    /\ Len(stack) = 2
    /\ Cardinality(ChildrenSoFar(stack[1].item)) = 2
    /\ Cardinality(ChildrenSoFar(stack[2].item)) = 1
    /\ stack[1].sum > 0
    /\ stack[2].sum > 0

\* the parent of the item with identifier id
ParentOfItem(id) == items[CHOOSE k \in 1..Len(items) : items[k].ID = id].ParentID

\* C26: during the pass the stack is an ancestor chain: the owner of the
\* bottom frame is a root and the owner of every other frame has the owner of
\* the frame directly beneath it as parent.
C26_StackIsAncestorChain ==
    \A i \in 1..Len(stack) :
        /\ ItemsWithID(stack[i].item) # {}
        /\ ParentOfItem(stack[i].item) =
              IF i = 1 THEN NullUUID ELSE stack[i - 1].item

\* C26 witness: a frame popped and a sibling's frame pushed in its place on
\* top of their parent's
C26_Witness ==
    /\ Len(stack) = 2
    /\ pops >= 1
    /\ stack[1].item = 1
    /\ stack[2].item = 4
    /\ items[2].ParentID = 1

RECURSIVE ItemAncestors(_)
\* the identifiers of the parent of the item with identifier id, of the
\* parent's parent, and so on
ItemAncestors(id) ==
    IF id = NullUUID \/ ItemsWithID(id) = {} THEN {}
    ELSE LET p == ParentOfItem(id)
         IN  IF p = NullUUID THEN {} ELSE {p} \cup ItemAncestors(p)

\* item k has a child, and its children's budgets sum to less than its own
\* budget less 0.01
UnderFilled(k) ==
    /\ ChildrenSoFar(items[k].ID) # {}
    /\ SumItemBudgets(ChildrenSoFar(items[k].ID)) < BudgetOf(items, k) - 100

\* C27: in the output for the rows read, every under-filled parent still has
\* its frame on the stack and is an ancestor of the last item, and any two
\* under-filled parents are ancestor and descendant of one another.
C27_UnderFilledOnLastChain ==
    /\ \A k \in 1..Len(items) :
          UnderFilled(k) =>
             /\ \E i \in 1..Len(stack) : stack[i].item = items[k].ID /\ FrameOpen(stack[i])
             /\ items[k].ID \in ItemAncestors(items[Len(items)].ID)
    /\ \A j, k \in 1..Len(items) :
          (UnderFilled(j) /\ UnderFilled(k) /\ j # k) =>
             \/ items[j].ID \in ItemAncestors(items[k].ID)
             \/ items[k].ID \in ItemAncestors(items[j].ID)

\* C27 witness: an under-filled parent that is the parent of the last item,
\* and a child of it whose frame was popped with its children's sum within 0.01
C27_Witness ==
    \E j, f \in 1..Len(items) :
        /\ UnderFilled(j)
        /\ items[Len(items)].ParentID = items[j].ID
        /\ items[f].ParentID = items[j].ID
        /\ ChildrenSoFar(items[f].ID) # {}
        /\ ~UnderFilled(f)
        /\ \A i \in 1..Len(stack) : stack[i].item # items[f].ID

----------------------------------------------------------------------------
(* The order of the parents: what the claim speaks of *)

\* what the last call could have ended with had GetParentItems and
\* GetChildrenWithPayApps returned their rows in any other order
OutcomesInAnyOrder ==
    UNION {DistributeParents(jobItems, target, parentItems,
              [pa |-> before, upserts |-> <<>>,
               dist |-> [ItemsUpdated |-> 0, Details |-> <<>>],
               quota |-> NoFailure(jobItems), err |-> FALSE])
             : parentItems \in Orderings(GetParentItems(jobItems))}

\* C28: the facts a call of DistributeParentQty leaves, and its itemsUpdated
\* count, are those every other order of the parents would have led to from
\* the same items and facts.
C28_ParentOrderIrrelevant ==
    lastCall = "DistributeParentQty" =>
        \A st \in OutcomesInAnyOrder :
            /\ st.pa = payApps
            /\ st.dist.ItemsUpdated = dist.ItemsUpdated

----------------------------------------------------------------------------
(* ParsePayApp: what the claim speaks of *)

\* C29: a call of ParsePayApp with target month m leaves every fact of a
\* month other than m as it was, quantity and stored materials, whatever the
\* workbook holds for that month and whether or not the call ends with an
\* error; the facts it adds for such a month are of items that had none.
C29_HistoryPreserved ==
    [][imports' = imports + 1 =>
         /\ \A f \in payApps : f.PayAppMonth # target' => f \in payApps'
         /\ \A g \in payApps' \ payApps :
               g.PayAppMonth # target' =>
                  ~\E f \in payApps :
                      f.JobItemID = g.JobItemID /\ f.PayAppMonth = g.PayAppMonth
      ]_vars

\* C29 witness: after a second import, with target month 2 and a Detail
\* sheet that has 0.20 for item 1 in months 1 and 2, the fact of month 1 is
\* still the stored one and the stored fact of month 2 is now the workbook's
C29_Witness ==
    /\ imports = 2
    /\ lastCall = "ParsePayApp"
    /\ target = 2
    /\ file.data.detail[1].Qty[1] = NumCell(2000)
    /\ file.data.detail[1].Qty[2] = NumCell(2000)
    /\ file.data.sov = <<>>
    /\ StoredFact(1, 1) \in payApps
    /\ StoredFact(1, 2) \in before
    /\ MkPayApp(1, 2, Dec(2000)) \in payApps

----------------------------------------------------------------------------
(* The work of the pass: what the claim speaks of *)

\* C30: over the pass every frame pushed is on the stack or was popped, once;
\* the frames on the stack belong to different items created so far; so the
\* pops never exceed the pushes, which never exceed the items created, and
\* one row pops no more frames than were popped in all.
C30_PopsWithinPushesWithinItems ==
    /\ pops + Len(stack) = pushes
    /\ \A i, j \in 1..Len(stack) : i < j => stack[i].item < stack[j].item
    /\ \A i \in 1..Len(stack) : ItemsWithID(stack[i].item) # {}
    /\ pops <= pushes
    /\ pushes <= Len(items)
    /\ lastPops <= pops
    /\ Len(items) <= Len(rows)

\* C30 witness: four rows gave four items, three of them pushed, and the
\* last row popped two frames at once
C30_Witness ==
    /\ Len(rows) = 4
    /\ Len(items) = 4
    /\ pushes = 3
    /\ pops = 2
    /\ lastPops = 2

====
